---- MODULE Spec2Model ----
(***************************************************************************)
(* TostEngine JUCE Pocket Sampler: the sampler plugin (SamplerPlugin.h,    *)
(* SamplerPlugin.cpp), its editor (SamplerEditor.h, SamplerEditor.cpp) and *)
(* the MIDI input callback of the main window (Main.cpp).                  *)
(*                                                                         *)
(* The plugin owns a juce::Synthesiser.  The repository overrides the      *)
(* voice (MidiSamplerVoice) and the sound (ButtonSampleSound); the         *)
(* dispatch around them is the library's and is modelled as the library    *)
(* documents it:                                                           *)
(*   - noteOn: for every registered sound that appliesToNote, first        *)
(*     stopVoice(v, 1.0, allowTailOff = true) on every voice whose         *)
(*     currently playing note is that note, then startVoice on             *)
(*     findFreeVoice(sound, ..., shouldStealNotes);                        *)
(*   - shouldStealNotes is true unless setNoteStealingEnabled(false) is    *)
(*     called, which the plugin never does;                                *)
(*   - a voice is free when getCurrentlyPlayingNote() < 0;                 *)
(*   - startVoice calls stopNote(0, false) on a voice that still has a     *)
(*     sound, sets its current note and sound, then calls startNote;       *)
(*   - noteOff (from handleMidiEvent, allowTailOff = true) calls stopVoice *)
(*     on every voice whose currently playing note is that note;           *)
(*   - clearCurrentNote sets the current note to -1 and drops the sound;   *)
(*   - renderNextBlock(buffer, midi, ...) renders the voices up to each    *)
(*     event's position, handles the event, and goes on.                   *)
(***************************************************************************)
EXTENDS Integers, Sequences, FiniteSets, TLC

\* ---- bounds of the model (the program uses 16 pads and 16 voices) ----
NumPads == 2
NumVoices == 2
BlockSize == 1
MaxQueue == 1
MaxExports == 2
MaxBurst == 2
LongBlock == 2

\* ---- program constants ----
NumMidiNotes == 128
FirstNote == 36
DefaultRootNote == 60
ClickVelocity == 100
NoButton == -1

Pads == 0..(NumPads - 1)
Voices == 1..NumVoices
MidiNotes == 0..(NumMidiNotes - 1)

\* notes the environment plays, files it offers
InNotes == {FirstNote, FirstNote + 1}
GoodFile == "kick.wav"
BadFile == "notes.txt"
Files == {GoodFile, BadFile}
NoPath == ""
\* a file that decodes to a sample of no frames, and a path no file is at
EmptyFile == "empty.wav"
MissingFile == "gone.wav"

\* File::exists
Exists(f) == f \in {GoodFile, BadFile, EmptyFile}

\* the injected decoder: formatManager.createReaderFor(file) and what the
\* reader reports (nullptr for a file no registered format can read)
CreateReaderFor(f) ==
    IF f = GoodFile
    THEN [ok |-> TRUE, lengthInSamples |-> 3, sampleRate |-> 44100, numChannels |-> 1]
    ELSE IF f = EmptyFile
    THEN [ok |-> TRUE, lengthInSamples |-> 0, sampleRate |-> 44100, numChannels |-> 1]
    ELSE [ok |-> FALSE, lengthInSamples |-> 0, sampleRate |-> 0, numChannels |-> 0]

\* heap of AudioSampleBuffer objects: a buffer id holds the file it was read
\* from, or NoPath once deleted; NullBuf is nullptr
NullBuf == 0
BufIds == 1..(2 * NumPads + NumVoices + 4)

VARIABLES
    buttons,            \* SamplerPlugin::buttons        pad  -> ButtonSample
    midiNoteSamples,    \* SamplerPlugin::midiNoteSamples note -> ButtonSample
    noteMapping,        \* SamplerPlugin::noteMapping    pad  -> note
    sounds,             \* the synth's registered sounds, in order
    voices,             \* the synth's voices
    heap,               \* buffer id -> file held, NoPath when not allocated
    oneShotEnabled,     \* OneShotMode::isEnabled
    midiCollector,      \* SamplerPlugin::midiCollector's queue
    audioPc,            \* "idle" or "block": position of the render callback
    allMidi,            \* events of the block being rendered, not yet handled
    framesLeft,         \* frames of the block not yet rendered
    isMidiLearning,     \* SamplerEditor fields
    isSampleLearning,
    learningButtonIndex,
    sampleLearnButtonIndex,
    isOneShotMode,
    oneShotButton,      \* toggle state of the One-Shot ToggleButton
    pendingNoteOffButton,
    pendingNoteOffNote,
    fileChooser,        \* pad whose file chooser is open, NoButton when none
    loadPc,             \* <<note, file>> of a loadSampleForMidiNote call that has
                        \* cleared the slot and is decoding, <<>> when none
    jsonFile,           \* the documents written to the settings file, in order
    heardNote,          \* history: the first note-on received since Sample
                        \* Learn was armed, -1 when none
    destData,           \* the block getStateInformation last filled, kept by
                        \* the host: its Button elements, <<>> when none
    clickPc,            \* pad whose mouseDown has read isMidiLearning as true
                        \* and has not yet called setLearningButtonIndex,
                        \* NoButton when none
    lastOp              \* history: the operation that produced this state

pluginVars == <<buttons, midiNoteSamples, noteMapping, sounds, heap>>
synthVars == <<voices, oneShotEnabled>>
audioVars == <<midiCollector, audioPc, allMidi, framesLeft>>
learnVars == <<isMidiLearning, isSampleLearning, learningButtonIndex, sampleLearnButtonIndex>>
editorVars == <<isOneShotMode, oneShotButton, pendingNoteOffButton, pendingNoteOffNote, fileChooser>>
sessionVars == <<loadPc, jsonFile, heardNote, destData, clickPc>>
vars == <<pluginVars, synthVars, audioVars, learnVars, editorVars, sessionVars, lastOp>>

\* ---------------------------------------------------------------------
\* ButtonSample, ButtonSampleSound, MidiSamplerVoice
\* ---------------------------------------------------------------------

\* ButtonSample() and the fields ButtonSample::clear() leaves
EmptySample ==
    [sampleBuffer |-> NullBuf, filePath |-> NoPath, sourceSampleRate |-> 0,
     isLoaded |-> FALSE, rootNote |-> DefaultRootNote]

ButtonSampleSound(buttonIndex, buffer, sampleRate, rootNote) ==
    [buttonIndex |-> buttonIndex, sampleBuffer |-> buffer,
     sourceSampleRate |-> sampleRate, rootNote |-> rootNote]

AppliesToNoteFromRootUp(sound, midiNote) == midiNote >= sound.rootNote

AppliesToNote(sound, midiNote) == midiNote = sound.rootNote

\* a voice as constructed: the synth's currentlyPlayingNote is -1
NewVoice ==
    [currentlyPlayingNote |-> -1, isPlaying |-> FALSE, velocity |-> 0,
     position |-> 0, pitchRatio |-> 1000, midiNoteNumber |-> DefaultRootNote,
     rootNote |-> DefaultRootNote, sampleBuffer |-> NullBuf,
     sourceSampleRate |-> 44100]

\* position and pitchRatio are kept in thousandths of a frame
PitchUnit == 10 * 100
SemitoneRatio(k) ==
    CASE k = 0 -> 1000 [] k = 1 -> 1059 [] k = 2 -> 1122 [] k = 3 -> 1189
      [] k = 4 -> 1260 [] k = 5 -> 1335 [] k = 6 -> 1414 [] k = 7 -> 1498
      [] k = 8 -> 1587 [] k = 9 -> 1682 [] k = 10 -> 1782 [] k = 11 -> 1888

RECURSIVE Pow2Twelfths(_)
\* pow(2.0, d / 12.0) in thousandths
Pow2Twelfths(d) ==
    IF d >= 12 THEN 2 * Pow2Twelfths(d - 12)
    ELSE IF d < 0 THEN Pow2Twelfths(d + 12) \div 2
    ELSE SemitoneRatio(d)

PitchRatioIgnoringRate(midiNoteNumber, rootNote, sourceSampleRate) ==
    Pow2Twelfths(midiNoteNumber - rootNote)

\* startNote: pow(2.0, (midiNoteNumber - rootNote) / 12.0), or 1.0f when the
\* sound's source rate is not above zero
PitchRatio(midiNoteNumber, rootNote, sourceSampleRate) ==
    IF sourceSampleRate > 0 THEN Pow2Twelfths(midiNoteNumber - rootNote) ELSE PitchUnit

\* A voice whose isPlaying is false: renderNextBlock returns at once and
\* startNote overwrites every other field before anything reads it, so the
\* model keeps of such a voice only the synth's currentlyPlayingNote.
Silenced(v) == [NewVoice EXCEPT !.currentlyPlayingNote = v.currentlyPlayingNote]

\* SynthesiserVoice::clearCurrentNote
ClearCurrentNote(v) == [v EXCEPT !.currentlyPlayingNote = -1]

StartNoteNotPlaying(v, midiNoteNumber, velocity, sound) ==
    [v EXCEPT !.midiNoteNumber = midiNoteNumber, !.position = 0]

StartNote(v, midiNoteNumber, velocity, sound) ==
    [v EXCEPT !.midiNoteNumber = midiNoteNumber,
              !.velocity = velocity,
              !.isPlaying = TRUE,
              !.position = 0,
              !.sampleBuffer = sound.sampleBuffer,
              !.sourceSampleRate = sound.sourceSampleRate,
              !.rootNote = sound.rootNote,
              !.pitchRatio = PitchRatio(midiNoteNumber, sound.rootNote, sound.sourceSampleRate)]

StopNoteIgnoringOneShot(v, allowTailOff, oneShot) ==
    IF allowTailOff THEN Silenced(v) ELSE ClearCurrentNote(Silenced(v))

StopNote(v, allowTailOff, oneShot) ==
    IF oneShot THEN v
    ELSE IF allowTailOff THEN Silenced(v)
    ELSE ClearCurrentNote(Silenced(v))

\* static_cast<int>(position) % getNumSamples(): with a buffer of no frames
\* the remainder of a division by zero is undefined; where the build does
\* not trap on it the voice is left reading the frame at its position
SamplePos(position, len) ==
    IF len = 0 THEN position \div PitchUnit ELSE (position \div PitchUnit) % len

RECURSIVE RenderNextBlock(_, _, _, _)
\* one voice over the output frames startSample .. startSample + numSamples - 1;
\* len is sampleBuffer->getNumSamples().  The result is the voice afterwards,
\* every frame of its buffer that was read (reads) and every term that was
\* added to an output frame (out): the frame is read, the position advances,
\* and the end-of-sample check leaves the loop before the write
RenderNextBlock(v, startSample, numSamples, len) ==
    IF v.sampleBuffer = NullBuf \/ ~v.isPlaying \/ numSamples = 0
    THEN [voice |-> v, reads |-> {}, out |-> {}]
    ELSE LET samplePos == SamplePos(v.position, len)
             read == [outputIndex |-> startSample, samplePos |-> samplePos,
                      playhead |-> v.position \div PitchUnit, frames |-> len]
             moved == [v EXCEPT !.position = @ + v.pitchRatio]
         IN IF moved.position >= len * PitchUnit
            THEN [voice |-> ClearCurrentNote(Silenced(moved)),
                  reads |-> {read}, out |-> {}]
            ELSE LET rest == RenderNextBlock(moved, startSample + 1, numSamples - 1, len)
                 IN [voice |-> rest.voice,
                     reads |-> {read} \cup rest.reads,
                     out |-> {[outputIndex |-> startSample, samplePos |-> samplePos,
                               velocity |-> v.velocity]}
                             \cup rest.out]

\* ---------------------------------------------------------------------
\* juce::Synthesiser around the voices (see the note at the top)
\* ---------------------------------------------------------------------

NoVoice == 0

FreeVoices(vs) == {v \in Voices : vs[v].currentlyPlayingNote < 0}

FindFreeVoiceNoSteal(vs, steal) ==
    IF FreeVoices(vs) # {}
    THEN CHOOSE v \in FreeVoices(vs) : \A w \in FreeVoices(vs) : v <= w
    ELSE NoVoice

\* the first voice that is not active; with none, the voice findVoiceToSteal
\* picks (steal: any voice, all of them being active then)
FindFreeVoice(vs, steal) ==
    IF FreeVoices(vs) # {}
    THEN CHOOSE v \in FreeVoices(vs) : \A w \in FreeVoices(vs) : v <= w
    ELSE steal

StartVoice(vs, t, sound, midiNoteNumber, velocity, oneShot) ==
    IF t = NoVoice THEN vs
    ELSE LET stopped == IF vs[t].currentlyPlayingNote >= 0
                        THEN StopNote(vs[t], FALSE, oneShot) ELSE vs[t]
             current == [stopped EXCEPT !.currentlyPlayingNote = midiNoteNumber]
         IN [vs EXCEPT ![t] = StartNote(current, midiNoteNumber, velocity, sound)]

StopVoicesOnMappedNote(vs, midiNoteNumber, oneShot) ==
    [v \in Voices |->
        LET owners == {p \in Pads : vs[v].sampleBuffer # NullBuf
                                      /\ buttons[p].sampleBuffer = vs[v].sampleBuffer}
            note == IF owners = {} THEN vs[v].currentlyPlayingNote
                    ELSE noteMapping[CHOOSE p \in owners : TRUE]
        IN IF vs[v].currentlyPlayingNote >= 0 /\ note = midiNoteNumber
           THEN StopNote(vs[v], TRUE, oneShot) ELSE vs[v]]

\* Synthesiser::noteOff, and the loop at the head of Synthesiser::noteOn: every
\* voice whose current note is the note is stopped with tail-off
StopVoicesOnNote(vs, midiNoteNumber, oneShot) ==
    [v \in Voices |-> IF vs[v].currentlyPlayingNote = midiNoteNumber
                      THEN StopNote(vs[v], TRUE, oneShot) ELSE vs[v]]

SynthNoteOnAnySound(vs, snds, midiNoteNumber, velocity, steal, oneShot) ==
    LET RECURSIVE Loop(_, _)
        Loop(w, i) ==
            IF i > Len(snds) THEN w
            ELSE LET stopped == StopVoicesOnNote(w, midiNoteNumber, oneShot)
                     t == FindFreeVoice(stopped, steal)
                 IN Loop(StartVoice(stopped, t, snds[i], midiNoteNumber, velocity, oneShot), i + 1)
    IN Loop(vs, 1)

SynthNoteOn(vs, snds, midiNoteNumber, velocity, steal, oneShot) ==
    LET RECURSIVE Loop(_, _)
        Loop(w, i) ==
            IF i > Len(snds) THEN w
            ELSE IF AppliesToNote(snds[i], midiNoteNumber)
            THEN LET stopped == StopVoicesOnNote(w, midiNoteNumber, oneShot)
                     t == FindFreeVoice(stopped, steal)
                 IN Loop(StartVoice(stopped, t, snds[i], midiNoteNumber, velocity, oneShot), i + 1)
            ELSE Loop(w, i + 1)
    IN Loop(vs, 1)

SynthNoteOff(vs, midiNoteNumber, oneShot) == StopVoicesOnNote(vs, midiNoteNumber, oneShot)

NoteOnMsg(note, velocity) == [isNoteOn |-> TRUE, note |-> note, velocity |-> velocity]
NoteOffMsg(note) == [isNoteOn |-> FALSE, note |-> note, velocity |-> 0]

HandleMidiEvent(vs, snds, m, steal, oneShot) ==
    IF m.isNoteOn THEN SynthNoteOn(vs, snds, m.note, m.velocity, steal, oneShot)
    ELSE SynthNoteOff(vs, m.note, oneShot)

\* ---------------------------------------------------------------------
\* SamplerPlugin: operations on the record of its fields
\* ---------------------------------------------------------------------

Plugin ==
    [buttons |-> buttons, midiNoteSamples |-> midiNoteSamples,
     noteMapping |-> noteMapping, sounds |-> sounds, heap |-> heap]

\* delete sampleBuffer
Delete(h, b) == IF b = NullBuf THEN h ELSE [h EXCEPT ![b] = NoPath]

\* new AudioSampleBuffer: an address that is neither allocated nor still held
\* by a voice or a sound
NewBuffer(P) ==
    LET held == {voices[v].sampleBuffer : v \in Voices}
                  \cup {P.sounds[i].sampleBuffer : i \in 1..Len(P.sounds)}
        free == {b \in BufIds : P.heap[b] = NoPath /\ b \notin held}
    IN CHOOSE b \in free : \A c \in free : b <= c

LoadedSample(buffer, file, reader, rootNote) ==
    [sampleBuffer |-> buffer, filePath |-> file,
     sourceSampleRate |-> reader.sampleRate, isLoaded |-> TRUE, rootNote |-> rootNote]

ClearSampleClamped(P, buttonIndex) ==
    LET i == IF buttonIndex < 0 THEN 0
             ELSE IF buttonIndex >= NumPads THEN NumPads - 1 ELSE buttonIndex
    IN [P EXCEPT !.heap = Delete(@, P.buttons[i].sampleBuffer),
                 !.buttons[i] = EmptySample,
                 !.sounds = SelectSeq(@, LAMBDA s : s.buttonIndex # i)]

\* SamplerPlugin::clearSample
ClearSample(P, buttonIndex) ==
    IF buttonIndex >= 0 /\ buttonIndex < NumPads
    THEN [P EXCEPT !.heap = Delete(@, P.buttons[buttonIndex].sampleBuffer),
                   !.buttons[buttonIndex] = EmptySample,
                   !.sounds = SelectSeq(@, LAMBDA s : s.buttonIndex # buttonIndex)]
    ELSE P

LoadSample(P, buttonIndex, file) ==
    IF buttonIndex < 0 \/ buttonIndex >= NumPads
    THEN [plugin |-> P, result |-> FALSE]
    ELSE LET Q == ClearSample(P, buttonIndex)
             reader == CreateReaderFor(file)
             buffer == NewBuffer(Q)
         IN IF reader.ok
            THEN [plugin |->
                    [Q EXCEPT !.heap[buffer] = file,
                              !.buttons[buttonIndex] =
                                  LoadedSample(buffer, file, reader, Q.noteMapping[buttonIndex]),
                              !.sounds = Append(@, ButtonSampleSound(buttonIndex, buffer,
                                                   reader.sampleRate, Q.noteMapping[buttonIndex]))],
                  result |-> TRUE]
            ELSE [plugin |-> Q, result |-> FALSE]

\* index of the last sound of the pad, 0 when it has none
LastSoundOf(snds, buttonIndex) ==
    LET hits == {i \in 1..Len(snds) : snds[i].buttonIndex = buttonIndex}
    IN IF hits = {} THEN 0 ELSE CHOOSE i \in hits : \A j \in hits : j <= i

RemoveAt(snds, i) == SubSeq(snds, 1, i - 1) \o SubSeq(snds, i + 1, Len(snds))

SetNoteMappingOfSharedNote(P, buttonIndex, midiNote) ==
    IF buttonIndex < 0 \/ buttonIndex >= NumPads THEN P
    ELSE LET i == LastSoundOf(P.sounds, buttonIndex)
         IN [P EXCEPT !.noteMapping = [q \in DOMAIN @ |->
                                          IF @[q] = @[buttonIndex] THEN midiNote ELSE @[q]],
                      !.sounds = IF i = 0 THEN @
                                 ELSE Append(RemoveAt(@, i),
                                             ButtonSampleSound(buttonIndex, @[i].sampleBuffer,
                                                               @[i].sourceSampleRate, midiNote))]

SetNoteMapping(P, buttonIndex, midiNote) ==
    IF buttonIndex < 0 \/ buttonIndex >= NumPads THEN P
    ELSE LET i == LastSoundOf(P.sounds, buttonIndex)
         IN [P EXCEPT !.noteMapping[buttonIndex] = midiNote,
                      !.sounds = IF i = 0 THEN @
                                 ELSE Append(RemoveAt(@, i),
                                             ButtonSampleSound(buttonIndex, @[i].sampleBuffer,
                                                               @[i].sourceSampleRate, midiNote))]

ClearMidiNoteSampleKeepingSound(P, midiNote) ==
    IF midiNote >= 0 /\ midiNote < NumMidiNotes
    THEN [P EXCEPT !.heap = Delete(@, P.midiNoteSamples[midiNote].sampleBuffer),
                   !.midiNoteSamples[midiNote] = EmptySample]
    ELSE P

ClearMidiNoteSample(P, midiNote) ==
    IF midiNote >= 0 /\ midiNote < NumMidiNotes
    THEN [P EXCEPT !.heap = Delete(@, P.midiNoteSamples[midiNote].sampleBuffer),
                   !.midiNoteSamples[midiNote] = EmptySample,
                   !.sounds = SelectSeq(@, LAMBDA s :
                                  ~(s.buttonIndex = -1 /\ s.rootNote = midiNote))]
    ELSE P

LoadSampleForMidiNote(P, midiNote, file) ==
    IF midiNote < 0 \/ midiNote >= NumMidiNotes
    THEN [plugin |-> P, result |-> FALSE]
    ELSE LET Q == ClearMidiNoteSample(P, midiNote)
             reader == CreateReaderFor(file)
             buffer == NewBuffer(Q)
         IN IF reader.ok
            THEN [plugin |->
                    [Q EXCEPT !.heap[buffer] = file,
                              !.midiNoteSamples[midiNote] =
                                  LoadedSample(buffer, file, reader, midiNote),
                              !.sounds = Append(@, ButtonSampleSound(-1, buffer,
                                                   reader.sampleRate, midiNote))],
                  result |-> TRUE]
            ELSE [plugin |-> Q, result |-> FALSE]

\* one pass of setStateInformation's loop body over the element
\* getChildByName("Button") returns: the document's first Button child
RestoreButton(P, buttonXml) ==
    IF buttonXml.index >= 0 /\ buttonXml.index < NumPads
    THEN LET index == buttonXml.index
             Q == [P EXCEPT !.heap = Delete(@, P.buttons[index].sampleBuffer),
                            !.buttons[index] = [EmptySample EXCEPT !.filePath = buttonXml.filePath],
                            !.noteMapping[index] = buttonXml.noteMapping]
         IN IF buttonXml.filePath # NoPath
            THEN LoadSample(Q, index, buttonXml.filePath).plugin
            ELSE Q
    ELSE P

\* SamplerPlugin::getStateInformation: one Button element per pad with the
\* pad's index, the pad slot's filePath and the pad's note
GetStateInformation(P) ==
    [i \in 1..NumPads |->
        [index |-> i - 1, filePath |-> P.buttons[i - 1].filePath,
         noteMapping |-> P.noteMapping[i - 1]]]

RECURSIVE RestoreLoop(_, _, _)
RestoreLoop(P, xml, i) ==
    IF i >= NumPads THEN P
    ELSE RestoreLoop(IF Len(xml) > 0 THEN RestoreButton(P, xml[1]) ELSE P, xml, i + 1)

\* xml: the Button children of a parsed SamplerState document, in order
SetStateInformation(P, xml) == RestoreLoop(P, xml, 0)

\* ---------------------------------------------------------------------
\* SamplerEditor: the learn fields, as a record
\* ---------------------------------------------------------------------

Learn ==
    [isMidiLearning |-> isMidiLearning, isSampleLearning |-> isSampleLearning,
     learningButtonIndex |-> learningButtonIndex,
     sampleLearnButtonIndex |-> sampleLearnButtonIndex]

MidiLearnClickedKeepingSampleLearn(L) ==
    [L EXCEPT !.isMidiLearning = ~L.isMidiLearning, !.learningButtonIndex = NoButton]

\* buttonClicked(&midiLearnButton)
MidiLearnClicked(L) ==
    IF ~L.isMidiLearning
    THEN [L EXCEPT !.isMidiLearning = TRUE, !.learningButtonIndex = NoButton,
                   !.isSampleLearning = FALSE]
    ELSE [L EXCEPT !.isMidiLearning = FALSE, !.learningButtonIndex = NoButton]

SampleLearnClickedKeepingMidiLearn(L) ==
    IF ~L.isSampleLearning
    THEN [L EXCEPT !.isSampleLearning = TRUE, !.sampleLearnButtonIndex = NoButton]
    ELSE [L EXCEPT !.isSampleLearning = FALSE, !.sampleLearnButtonIndex = NoButton]

\* buttonClicked(&sampleLearnButton)
SampleLearnClicked(L) ==
    IF ~L.isSampleLearning
    THEN [L EXCEPT !.isSampleLearning = TRUE, !.sampleLearnButtonIndex = NoButton,
                   !.isMidiLearning = FALSE, !.learningButtonIndex = NoButton]
    ELSE [L EXCEPT !.isSampleLearning = FALSE, !.sampleLearnButtonIndex = NoButton]

ExitSampleLearnKeepingArmed(L) == L

\* the end of the file chooser callback: "Exit sample learn mode"
ExitSampleLearn(L) ==
    [L EXCEPT !.isSampleLearning = FALSE, !.sampleLearnButtonIndex = NoButton]

MouseDownBranchIgnoringSampleLearn(L) ==
    IF L.isMidiLearning THEN "selectPad" ELSE "padClick"

\* SamplerButtonUI::mouseDown, left button: the branch taken
MouseDownBranch(L) ==
    IF L.isMidiLearning THEN "selectPad"
    ELSE IF L.isSampleLearning THEN "openChooser"
    ELSE "padClick"

\* the condition under which handleMidiMessage binds the note
CompletesLearn(L, m) == L.isMidiLearning /\ L.learningButtonIndex >= 0 /\ m.isNoteOn

HandleMidiMessageStayingArmed(L, P, m) ==
    IF CompletesLearn(L, m)
    THEN [learn |-> L, plugin |-> SetNoteMapping(P, L.learningButtonIndex, m.note)]
    ELSE [learn |-> L, plugin |-> P]

\* SamplerEditor::handleMidiMessage, on the learn fields and the plugin
HandleMidiMessage(L, P, m) ==
    IF CompletesLearn(L, m)
    THEN [learn |-> [L EXCEPT !.isMidiLearning = FALSE, !.learningButtonIndex = NoButton],
          plugin |-> SetNoteMapping(P, L.learningButtonIndex, m.note)]
    ELSE [learn |-> L, plugin |-> P]

AddMessageUnlessLearning(q, m) ==
    IF isMidiLearning \/ isSampleLearning THEN q ELSE Append(q, m)

AddMessageUnlessCaptured(q, m) == IF m.capture THEN q ELSE Append(q, m)

\* MidiMessageCollector::addMessageToQueue
AddMessageToQueue(q, m) == Append(q, m)

\* a message with the history flag: it is the note-on that completed a learn
Tagged(m, capture) ==
    [isNoteOn |-> m.isNoteOn, note |-> m.note, velocity |-> m.velocity, capture |-> capture]

\* history records: a control operation with its pad, note and a flag; an
\* event the synth handled, with the numbers of voices that were free and
\* that were playing before it
Op(name, pad, note, flag) ==
    [op |-> name, pad |-> pad, note |-> note, flag |-> flag, free |-> -1, playing |-> -1,
     label |-> NoPath, reads |-> {}, out |-> {}, arg |-> <<>>, loaded |-> -1, failed |-> -1,
     msg |-> <<>>]

\* a control operation that ends by writing midiLearnLabel: label is the text
LabelOp(name, pad, note, flag, label) == [Op(name, pad, note, flag) EXCEPT !.label = label]

AudioOp(name, note, flag, vs) ==
    [op |-> name, pad |-> NoButton, note |-> note, flag |-> flag,
     free |-> Cardinality({v \in Voices : vs[v].currentlyPlayingNote < 0}),
     playing |-> Cardinality({v \in Voices : vs[v].isPlaying}),
     label |-> NoPath, reads |-> {}, out |-> {}, arg |-> <<>>, loaded |-> -1, failed |-> -1,
     msg |-> <<>>]

\* ---------------------------------------------------------------------
\* SamplerEditor::loadAllSamplesFromJson and the import at start-up
\* ---------------------------------------------------------------------

\* a settings document as JSON::parse returns it; a section that is absent
\* has its has-flag FALSE
Document(hasOneShotMode, oneShotMode, hasButtons, btns, hasMidiNotes, notes) ==
    [isObject |-> TRUE, hasOneShotMode |-> hasOneShotMode, oneShotMode |-> oneShotMode,
     hasButtons |-> hasButtons, buttons |-> btns,
     hasMidiNotes |-> hasMidiNotes, midiNotes |-> notes]

RECURSIVE ImportButtons(_, _, _)
\* the loop over the buttons section: mappings only
ImportButtons(P, btns, i) ==
    IF i > Len(btns) THEN P
    ELSE ImportButtons(IF btns[i].index >= 0 /\ btns[i].index < NumPads
                       THEN SetNoteMapping(P, btns[i].index, btns[i].midiNote)
                       ELSE P,
                       btns, i + 1)

\* the entries of a midiNotes section the loop acts on: those with a note
\* in range and a file path that is not empty (it passes over the others)
EntriesToLoad(notes) ==
    SelectSeq(notes, LAMBDA e : e.midiNote >= 0 /\ e.midiNote < NumMidiNotes
                                 /\ e.filePath # NoPath)

RECURSIVE ImportMidiNotes(_, _, _)
\* the loop over the midiNotes section; R carries the plugin and the counters
ImportMidiNotes(R, notes, i) ==
    IF i > Len(notes) THEN R
    ELSE LET e == notes[i]
         IN IF e.midiNote >= 0 /\ e.midiNote < NumMidiNotes /\ e.filePath # NoPath
            THEN IF Exists(e.filePath)
                 THEN LET r == LoadSampleForMidiNote(R.plugin, e.midiNote, e.filePath)
                      IN ImportMidiNotes(
                             [plugin |-> r.plugin,
                              loadedCount |-> R.loadedCount + (IF r.result THEN 1 ELSE 0),
                              failedCount |-> R.failedCount + (IF r.result THEN 0 ELSE 1)],
                             notes, i + 1)
                 ELSE ImportMidiNotes([R EXCEPT !.failedCount = @ + 1], notes, i + 1)
            ELSE ImportMidiNotes(R, notes, i + 1)

LoadAllSamplesFromJsonFailingOnError(P, oneShot, doc) ==
    IF ~doc.isObject
    THEN [plugin |-> P, oneShot |-> oneShot, loadedCount |-> 0, failedCount |-> 0,
          result |-> FALSE]
    ELSE LET Q == IF doc.hasButtons THEN ImportButtons(P, doc.buttons, 1) ELSE P
             start == [plugin |-> Q, loadedCount |-> 0, failedCount |-> 0]
             R == IF doc.hasMidiNotes
                  THEN ImportMidiNotes(start, EntriesToLoad(doc.midiNotes), 1)
                  ELSE start
         IN [plugin |-> R.plugin,
             oneShot |-> IF doc.hasOneShotMode THEN doc.oneShotMode ELSE oneShot,
             loadedCount |-> R.loadedCount, failedCount |-> R.failedCount,
             result |-> R.failedCount = 0]

LoadAllSamplesFromJsonDefaultingOneShot(P, oneShot, doc) ==
    IF ~doc.isObject
    THEN [plugin |-> P, oneShot |-> oneShot, loadedCount |-> 0, failedCount |-> 0,
          result |-> FALSE]
    ELSE LET Q == IF doc.hasButtons THEN ImportButtons(P, doc.buttons, 1) ELSE P
             start == [plugin |-> Q, loadedCount |-> 0, failedCount |-> 0]
             R == IF doc.hasMidiNotes
                  THEN ImportMidiNotes(start, EntriesToLoad(doc.midiNotes), 1)
                  ELSE start
         IN [plugin |-> R.plugin,
             oneShot |-> IF doc.hasOneShotMode THEN doc.oneShotMode ELSE FALSE,
             loadedCount |-> R.loadedCount, failedCount |-> R.failedCount,
             result |-> TRUE]

\* oneShot: the value isOneShotMode, the toggle and OneShotMode::isEnabled
\* all hold; the import writes the three together
LoadAllSamplesFromJson(P, oneShot, doc) ==
    IF ~doc.isObject
    THEN [plugin |-> P, oneShot |-> oneShot, loadedCount |-> 0, failedCount |-> 0,
          result |-> FALSE]
    ELSE LET Q == IF doc.hasButtons THEN ImportButtons(P, doc.buttons, 1) ELSE P
             start == [plugin |-> Q, loadedCount |-> 0, failedCount |-> 0]
             R == IF doc.hasMidiNotes
                  THEN ImportMidiNotes(start, EntriesToLoad(doc.midiNotes), 1)
                  ELSE start
         IN [plugin |-> R.plugin,
             oneShot |-> IF doc.hasOneShotMode THEN doc.oneShotMode ELSE oneShot,
             loadedCount |-> R.loadedCount, failedCount |-> R.failedCount,
             result |-> TRUE]

\* last: the document settings.txt points at, <<>> when there is none
LoadLastJsonFileOnStartup(P, oneShot, last) ==
    IF last = <<>>
    THEN [plugin |-> P, oneShot |-> oneShot, loadedCount |-> 0, failedCount |-> 0,
          result |-> FALSE]
    ELSE LoadAllSamplesFromJson(P, oneShot, last[1])

HasSampleForMidiNote(P, midiNote) ==
    midiNote >= 0 /\ midiNote < NumMidiNotes /\ P.midiNoteSamples[midiNote].isLoaded

\* the document exportAllSettings builds: one-shot mode, one entry per pad,
\* one entry per MIDI note
ExportAllSettings(P, oneShotMode) ==
    Document(TRUE, oneShotMode,
             TRUE, [i \in 1..NumPads |->
                      [index |-> i - 1, midiNote |-> P.noteMapping[i - 1],
                       filePath |-> IF HasSampleForMidiNote(P, P.noteMapping[i - 1])
                                    THEN P.midiNoteSamples[P.noteMapping[i - 1]].filePath
                                    ELSE NoPath]],
             TRUE, [n \in 1..NumMidiNotes |->
                      [midiNote |-> n - 1,
                       filePath |-> IF P.midiNoteSamples[n - 1].isLoaded
                                    THEN P.midiNoteSamples[n - 1].filePath
                                    ELSE NoPath]])

\* targetFile.createOutputStream() then JSON::writeToStream: the stream of
\* an existing file is positioned at its end, so the document is written
\* after what the file already holds
WriteToStream(content, doc) == Append(content, doc)

\* JSON::parse(jsonFile): the first value of the text (parseObjectOrArray
\* reads one object and does not look at what follows it)
ParseJson(content) == IF content = <<>> THEN [isObject |-> FALSE] ELSE content[1]

\* the documents a previous session may have left behind
StartupDocuments ==
    {<<>>,
     <<Document(FALSE, FALSE, FALSE, <<>>, TRUE,
                <<[midiNote |-> FirstNote, filePath |-> GoodFile]>>)>>}

\* ---------------------------------------------------------------------
\* Initial state: SamplerPlugin(), then SamplerEditor(plugin), whose last
\* step imports the last used document
\* ---------------------------------------------------------------------

Constructed ==
    [buttons |-> [p \in Pads |-> EmptySample],
     midiNoteSamples |-> [n \in MidiNotes |-> EmptySample],
     noteMapping |-> [p \in Pads |-> FirstNote + p],
     sounds |-> <<>>,
     heap |-> [b \in BufIds |-> NoPath]]

Init ==
    /\ voices = [v \in Voices |-> NewVoice]
    /\ \E last \in StartupDocuments :
          LET r == LoadLastJsonFileOnStartup(Constructed, TRUE, last)
          IN /\ buttons = r.plugin.buttons
             /\ midiNoteSamples = r.plugin.midiNoteSamples
             /\ noteMapping = r.plugin.noteMapping
             /\ sounds = r.plugin.sounds
             /\ heap = r.plugin.heap
             /\ oneShotEnabled = r.oneShot
             /\ isOneShotMode = r.oneShot
             /\ oneShotButton = r.oneShot
    /\ midiCollector = <<>>
    /\ audioPc = "idle"
    /\ allMidi = <<>>
    /\ framesLeft = 0
    /\ isMidiLearning = FALSE
    /\ isSampleLearning = FALSE
    /\ learningButtonIndex = NoButton
    /\ sampleLearnButtonIndex = NoButton
    /\ pendingNoteOffButton = NoButton
    /\ pendingNoteOffNote = -1
    /\ fileChooser = NoButton
    /\ loadPc = <<>>
    /\ jsonFile = <<>>
    /\ heardNote = -1
    /\ destData = <<>>
    /\ clickPc = NoButton
    /\ lastOp = Op("init", NoButton, -1, FALSE)

SetPlugin(P) ==
    /\ buttons' = P.buttons
    /\ midiNoteSamples' = P.midiNoteSamples
    /\ noteMapping' = P.noteMapping
    /\ sounds' = P.sounds
    /\ heap' = P.heap

SetLearn(L) ==
    /\ isMidiLearning' = L.isMidiLearning
    /\ isSampleLearning' = L.isSampleLearning
    /\ learningButtonIndex' = L.learningButtonIndex
    /\ sampleLearnButtonIndex' = L.sampleLearnButtonIndex

\* ---------------------------------------------------------------------
\* The render callback: SamplerPlugin::processBlock
\* ---------------------------------------------------------------------

\* what getNumSamples() returns: the buffer's length, or, read through a
\* pointer to a deleted buffer, whatever the freed memory holds (ub)
NumSamplesOf(b, ub) ==
    IF heap[b] # NoPath THEN CreateReaderFor(heap[b]).lengthInSamples ELSE ub

UBLens == {1, 4}

\* a voice that renderNextBlock does not return from at once and whose buffer
\* has no frames: its first read divides by zero
DividesByZero(v, ub) ==
    v.sampleBuffer # NullBuf /\ v.isPlaying /\ NumSamplesOf(v.sampleBuffer, ub) = 0

\* the reads or output terms of one voice, marked with the voice
TagVoice(v, rs) == {[voice |-> v, at |-> r] : r \in rs}

BlockDoneWhenHandled(events, frames) == IF events = <<>> THEN "idle" ELSE "block"

\* the block is over when every event is handled and every frame rendered
BlockDone(events, frames) == IF events = <<>> /\ frames = 0 THEN "idle" ELSE "block"

\* removeNextBlockOfMessages, then synth.renderNextBlock starts on the events
\* of a block of numSamples frames
BeginBlock(numSamples) ==
    /\ audioPc = "idle"
    /\ audioPc' = "block"
    /\ allMidi' = midiCollector
    /\ midiCollector' = <<>>
    /\ framesLeft' = numSamples
    /\ lastOp' = Op("beginBlock", NoButton, -1, FALSE)
    /\ UNCHANGED <<sessionVars, pluginVars, synthVars, learnVars, editorVars>>

\* the synth handles the block's next event; the collector places every
\* event at a frame of the block, so at least one frame follows it
HandleEvent(steal) ==
    /\ audioPc = "block"
    /\ allMidi # <<>>
    /\ framesLeft >= 1
    /\ voices' = HandleMidiEvent(voices, sounds, Head(allMidi), steal, oneShotEnabled)
    /\ allMidi' = Tail(allMidi)
    /\ audioPc' = BlockDone(allMidi', framesLeft)
    /\ lastOp' = AudioOp(IF Head(allMidi).isNoteOn THEN "noteOn" ELSE "noteOff",
                         Head(allMidi).note, Head(allMidi).capture, voices)
    /\ UNCHANGED <<sessionVars, pluginVars, oneShotEnabled, midiCollector, framesLeft, learnVars, editorVars>>

\* the synth renders the voices over the next k frames (up to the next event,
\* or to the end of the block when no event is left)
RenderVoices(numSamples, k, ub, trap) ==
    /\ audioPc = "block"
    /\ k >= 1 /\ k <= framesLeft
    /\ allMidi = <<>> => k = framesLeft
    /\ allMidi # <<>> => k < framesLeft
    /\ LET start == numSamples - framesLeft
           r == [v \in Voices |->
                    RenderNextBlock(voices[v], start, k,
                                    NumSamplesOf(voices[v].sampleBuffer, ub))]
       IN IF trap /\ \E v \in Voices : DividesByZero(voices[v], ub)
          THEN /\ audioPc' = "crashed"
               /\ lastOp' = Op("crash", NoButton, -1, FALSE)
               /\ UNCHANGED <<voices, framesLeft>>
          ELSE /\ voices' = [v \in Voices |-> r[v].voice]
               /\ framesLeft' = framesLeft - k
               /\ audioPc' = BlockDone(allMidi, framesLeft')
               /\ lastOp' = [Op("render", NoButton, -1, FALSE) EXCEPT
                               !.reads = UNION {TagVoice(v, r[v].reads) : v \in Voices},
                               !.out = UNION {TagVoice(v, r[v].out) : v \in Voices}]
    /\ UNCHANGED <<sessionVars, pluginVars, oneShotEnabled, midiCollector, allMidi, learnVars, editorVars>>

\* ---------------------------------------------------------------------
\* MIDI input: MainWindow::handleIncomingMidiMessage
\* ---------------------------------------------------------------------

\* cap: the number of messages the model lets wait in the collector
MidiInputUpTo(m, cap) ==
    /\ audioPc = "idle"
    /\ Len(midiCollector) < cap
    /\ LET capture == CompletesLearn(Learn, m)
           r == HandleMidiMessage(Learn, Plugin, m)
       IN /\ midiCollector' = AddMessageToQueue(midiCollector, Tagged(m, capture))
          /\ SetLearn(r.learn)
          /\ SetPlugin(r.plugin)
          /\ lastOp' = [Op("midiIn",
                           IF capture THEN learningButtonIndex
                           ELSE IF lastOp.op \in {"clickMidiLearn", "clickSampleLearn"}
                                THEN lastOp.pad ELSE NoButton,
                           m.note, capture)
                          EXCEPT !.msg = m]
    /\ heardNote' = (IF isSampleLearning /\ m.isNoteOn /\ heardNote = -1 THEN m.note ELSE heardNote)
    /\ UNCHANGED <<destData, clickPc, loadPc, jsonFile, synthVars, audioPc, allMidi, framesLeft, editorVars>>

MidiInput(m) == MidiInputUpTo(m, MaxQueue)

\* ---------------------------------------------------------------------
\* The editor's controls
\* ---------------------------------------------------------------------

ClickMidiLearn ==
    /\ audioPc = "idle" /\ loadPc = <<>>
    /\ SetLearn(MidiLearnClicked(Learn))
    /\ lastOp' = Op("clickMidiLearn", learningButtonIndex, -1, isSampleLearning)
    /\ heardNote' = -1
    /\ UNCHANGED <<destData, clickPc, loadPc, jsonFile, pluginVars, synthVars, audioVars, editorVars>>

ClickSampleLearn ==
    /\ audioPc = "idle" /\ loadPc = <<>>
    /\ SetLearn(SampleLearnClicked(Learn))
    /\ lastOp' = Op("clickSampleLearn", learningButtonIndex, -1, isMidiLearning)
    /\ heardNote' = -1
    /\ UNCHANGED <<destData, clickPc, loadPc, jsonFile, pluginVars, synthVars, audioVars, editorVars>>

ClickOneShotInEditorOnly ==
    /\ audioPc = "idle" /\ loadPc = <<>>
    /\ oneShotButton' = ~oneShotButton
    /\ isOneShotMode' = oneShotButton'
    /\ lastOp' = Op("clickOneShot", NoButton, -1, oneShotButton')
    /\ UNCHANGED <<sessionVars, pluginVars, synthVars, audioVars, learnVars,
                   pendingNoteOffButton, pendingNoteOffNote, fileChooser>>

\* the ToggleButton flips, then buttonClicked(&oneShotButton)
ClickOneShot ==
    /\ audioPc = "idle" /\ loadPc = <<>>
    /\ oneShotButton' = ~oneShotButton
    /\ isOneShotMode' = oneShotButton'
    /\ oneShotEnabled' = oneShotButton'
    /\ lastOp' = Op("clickOneShot", NoButton, -1, oneShotButton')
    /\ UNCHANGED <<sessionVars, pluginVars, voices, audioVars, learnVars,
                   pendingNoteOffButton, pendingNoteOffNote, fileChooser>>

\* SamplerButtonUI::mouseDown, right button
PadRightClick(p) ==
    /\ audioPc = "idle" /\ loadPc = <<>>
    /\ SetPlugin(ClearSample(Plugin, p))
    /\ lastOp' = Op("clearSample", p, -1, FALSE)
    /\ UNCHANGED <<sessionVars, synthVars, audioVars, learnVars, editorVars>>

\* SamplerButtonUI::mouseDown, left button, MIDI Learn armed
PadSelectForLearn(p) ==
    /\ audioPc = "idle" /\ loadPc = <<>>
    /\ MouseDownBranch(Learn) = "selectPad"
    /\ learningButtonIndex' = p
    /\ lastOp' = Op("selectPad", p, -1, FALSE)
    /\ UNCHANGED <<sessionVars, pluginVars, synthVars, audioVars, editorVars,
                   isMidiLearning, isSampleLearning, sampleLearnButtonIndex>>

\* the same mouseDown as the MIDI input thread can see it: the message thread
\* reads editor->isMidiLearning, and calls setLearningButtonIndex afterwards;
\* handleMidiMessage runs on the MIDI input thread and takes no lock, so it
\* can run between the two
BeginPadSelectForLearn(p) ==
    /\ audioPc = "idle" /\ loadPc = <<>>
    /\ clickPc = NoButton
    /\ MouseDownBranch(Learn) = "selectPad"
    /\ clickPc' = p
    /\ lastOp' = Op("mouseDown", p, -1, FALSE)
    /\ UNCHANGED <<loadPc, jsonFile, heardNote, destData, pluginVars, synthVars,
                   audioVars, learnVars, editorVars>>

\* the rest of that mouseDown: setLearningButtonIndex(buttonIndex)
FinishPadSelectForLearn ==
    /\ audioPc = "idle" /\ loadPc = <<>>
    /\ clickPc # NoButton
    /\ learningButtonIndex' = clickPc
    /\ clickPc' = NoButton
    /\ lastOp' = Op("selectPad", clickPc, -1, ~isMidiLearning)
    /\ UNCHANGED <<loadPc, jsonFile, heardNote, destData, pluginVars, synthVars,
                   audioVars, editorVars, isMidiLearning, isSampleLearning,
                   sampleLearnButtonIndex>>

\* SamplerButtonUI::mouseDown, left button, Sample Learn armed:
\* loadSampleForButton opens the file chooser
PadSampleLearnClick(p) ==
    /\ audioPc = "idle" /\ loadPc = <<>>
    /\ MouseDownBranch(Learn) = "openChooser"
    /\ fileChooser' = p
    /\ lastOp' = Op("openChooser", p, -1, TRUE)
    /\ UNCHANGED <<sessionVars, pluginVars, synthVars, audioVars, learnVars,
                   isOneShotMode, oneShotButton, pendingNoteOffButton, pendingNoteOffNote>>

\* SamplerButtonUI::mouseDoubleClick: loadSampleForButton in any mode
PadDoubleClick(p) ==
    /\ audioPc = "idle" /\ loadPc = <<>>
    /\ fileChooser' = p
    /\ lastOp' = Op("openChooser", p, -1, FALSE)
    /\ UNCHANGED <<sessionVars, pluginVars, synthVars, audioVars, learnVars,
                   isOneShotMode, oneShotButton, pendingNoteOffButton, pendingNoteOffNote>>

\* SamplerButtonUI::mouseDown, left button, no learn mode armed; the history
\* flag: startNoteOffTimer replaced a pending note-off for another note
PadClick(p) ==
    /\ audioPc = "idle" /\ loadPc = <<>>
    /\ MouseDownBranch(Learn) = "padClick"
    /\ Len(midiCollector) < MaxQueue
    /\ midiCollector' = AddMessageToQueue(midiCollector,
                            Tagged(NoteOnMsg(noteMapping[p], ClickVelocity), FALSE))
    /\ pendingNoteOffButton' = p
    /\ pendingNoteOffNote' = noteMapping[p]
    /\ lastOp' = Op("padClick", p, noteMapping[p],
                    pendingNoteOffNote >= 0 /\ pendingNoteOffNote # noteMapping[p])
    /\ UNCHANGED <<sessionVars, pluginVars, synthVars, audioPc, allMidi, framesLeft, learnVars,
                   isOneShotMode, oneShotButton, fileChooser>>

\* the callback of loadSampleForButton's file chooser; file is NoPath (which
\* does not exist) when nothing was chosen
FileChooserCallback(file) ==
    /\ audioPc = "idle" /\ loadPc = <<>>
    /\ fileChooser # NoButton
    /\ Len(midiCollector) < MaxQueue
    /\ LET midiNote == noteMapping[fileChooser]
           r == IF Exists(file) THEN LoadSampleForMidiNote(Plugin, midiNote, file)
                ELSE [plugin |-> Plugin, result |-> FALSE]
       IN /\ SetPlugin(r.plugin)
          /\ midiCollector' = IF r.result
                              THEN AddMessageToQueue(midiCollector,
                                       Tagged(NoteOnMsg(midiNote, ClickVelocity), FALSE))
                              ELSE midiCollector
          /\ pendingNoteOffButton' = IF r.result THEN fileChooser ELSE pendingNoteOffButton
          /\ pendingNoteOffNote' = IF r.result THEN midiNote ELSE pendingNoteOffNote
          /\ lastOp' = LabelOp(IF ~Exists(file) THEN "chooserCancelled"
                               ELSE IF r.result THEN "loadOk" ELSE "loadFailed",
                               fileChooser, midiNote, midiNoteSamples[midiNote].isLoaded,
                               IF ~Exists(file) THEN NoPath
                               ELSE IF r.result THEN "Sample assigned to pad"
                               ELSE "Failed to load sample")
    /\ SetLearn(ExitSampleLearn(Learn))
    /\ fileChooser' = NoButton
    /\ heardNote' = (IF isSampleLearning THEN heardNote ELSE -1)
    /\ UNCHANGED <<destData, clickPc, loadPc, jsonFile, synthVars, audioPc, allMidi, framesLeft,
                   isOneShotMode, oneShotButton>>

\* SamplerEditor::timerCallback once NOTE_OFF_DELAY_MS have passed
TimerNoteOff ==
    /\ audioPc = "idle" /\ loadPc = <<>>
    /\ pendingNoteOffButton >= 0 /\ pendingNoteOffNote >= 0
    /\ Len(midiCollector) < MaxQueue
    /\ midiCollector' = AddMessageToQueue(midiCollector,
                            Tagged(NoteOffMsg(pendingNoteOffNote), FALSE))
    /\ pendingNoteOffButton' = NoButton
    /\ pendingNoteOffNote' = -1
    /\ lastOp' = Op("timerNoteOff", pendingNoteOffButton, pendingNoteOffNote, FALSE)
    /\ UNCHANGED <<sessionVars, pluginVars, synthVars, audioPc, allMidi, framesLeft, learnVars,
                   isOneShotMode, oneShotButton, fileChooser>>

\* the callback of exportAllSettings' file chooser; fresh: the file chosen
\* does not exist yet, otherwise it is the settings file written before
ExportCallback(fresh) ==
    /\ audioPc = "idle" /\ loadPc = <<>>
    /\ Len(jsonFile) < MaxExports
    /\ LET doc == ExportAllSettings(Plugin, isOneShotMode)
       IN /\ jsonFile' = WriteToStream(IF fresh THEN <<>> ELSE jsonFile, doc)
          /\ lastOp' = [LabelOp("export", NoButton, -1, fresh, "Exported to: ")
                           EXCEPT !.arg = doc]
    /\ UNCHANGED <<destData, clickPc, loadPc, heardNote, pluginVars, synthVars, audioVars, learnVars, editorVars>>

\* the callback of importAllSettings' file chooser for a file that exists
\* and holds doc
ImportCallback(doc) ==
    /\ audioPc = "idle" /\ loadPc = <<>>
    /\ LET r == LoadAllSamplesFromJson(Plugin, isOneShotMode, doc)
       IN /\ SetPlugin(r.plugin)
          /\ isOneShotMode' = r.oneShot
          /\ oneShotButton' = (IF doc.isObject /\ doc.hasOneShotMode THEN r.oneShot
                               ELSE oneShotButton)
          /\ oneShotEnabled' = (IF doc.isObject /\ doc.hasOneShotMode THEN r.oneShot
                                ELSE oneShotEnabled)
          /\ lastOp' = [LabelOp("import", NoButton, -1, r.result,
                                IF r.result THEN "Imported: " ELSE "Import failed!")
                           EXCEPT !.arg = doc, !.loaded = r.loadedCount,
                                  !.failed = r.failedCount]
    /\ UNCHANGED <<sessionVars, voices, audioVars, learnVars,
                   pendingNoteOffButton, pendingNoteOffNote, fileChooser>>

\* the settings file chosen in the import chooser
ImportSettingsFile ==
    /\ jsonFile # <<>>
    /\ ImportCallback(ParseJson(jsonFile))

\* ---------------------------------------------------------------------
\* The plugin's public operations, called directly (a host, a test)
\* ---------------------------------------------------------------------

ApiLoadSampleForMidiNote(n, file) ==
    /\ audioPc = "idle" /\ loadPc = <<>>
    /\ LET r == LoadSampleForMidiNote(Plugin, n, file)
       IN /\ SetPlugin(r.plugin)
          /\ lastOp' = Op(IF r.result THEN "loadOk" ELSE "loadFailed",
                          NoButton, n, n \in MidiNotes /\ midiNoteSamples[n].isLoaded)
    /\ UNCHANGED <<sessionVars, synthVars, audioVars, learnVars, editorVars>>

\* loadSampleForMidiNote as the render callback can see it: the call first
\* clears the slot and removes the sound (clearMidiNoteSample), then reads
\* the file, and only then fills the slot and adds the new sound; the synth's
\* lock is held by removeSound and by addSound, not in between, so whole
\* blocks can be rendered inside the call
BeginLoadSampleForMidiNote(n, file) ==
    /\ audioPc = "idle" /\ loadPc = <<>>
    /\ SetPlugin(ClearMidiNoteSample(Plugin, n))
    /\ loadPc' = <<n, file, midiNoteSamples[n].isLoaded>>
    /\ lastOp' = Op("loadBegin", NoButton, n, midiNoteSamples[n].isLoaded)
    /\ UNCHANGED <<destData, clickPc, jsonFile, heardNote, synthVars, audioVars, learnVars, editorVars>>

\* the rest of the call: the slot was cleared when the call began
FinishLoadSampleForMidiNote ==
    /\ audioPc = "idle" /\ loadPc # <<>>
    /\ LET r == LoadSampleForMidiNote(Plugin, loadPc[1], loadPc[2])
       IN /\ SetPlugin(r.plugin)
          /\ lastOp' = Op(IF r.result THEN "loadOk" ELSE "loadFailed",
                          NoButton, loadPc[1], loadPc[3])
    /\ loadPc' = <<>>
    /\ UNCHANGED <<destData, clickPc, jsonFile, heardNote, synthVars, audioVars, learnVars, editorVars>>

ApiClearMidiNoteSample(n) ==
    /\ audioPc = "idle" /\ loadPc = <<>>
    /\ SetPlugin(ClearMidiNoteSample(Plugin, n))
    /\ lastOp' = Op("clearMidiNoteSample", NoButton, n, FALSE)
    /\ UNCHANGED <<sessionVars, synthVars, audioVars, learnVars, editorVars>>

ApiLoadSample(p, file) ==
    /\ audioPc = "idle" /\ loadPc = <<>>
    /\ LET r == LoadSample(Plugin, p, file)
       IN /\ SetPlugin(r.plugin)
          /\ lastOp' = Op(IF r.result THEN "padLoadOk" ELSE "padLoadFailed",
                          p, IF p \in Pads THEN noteMapping[p] ELSE -1,
                          p \in Pads /\ buttons[p].isLoaded)
    /\ UNCHANGED <<sessionVars, synthVars, audioVars, learnVars, editorVars>>

\* MidiSamplerVoice::startNote called on voice v with a sound of the given
\* root note and source rate
ApiStartNote(v, midiNoteNumber, rootNote, sourceSampleRate) ==
    /\ audioPc = "idle" /\ loadPc = <<>>
    /\ voices' = [voices EXCEPT ![v] =
                    StartNote(@, midiNoteNumber, ClickVelocity,
                              ButtonSampleSound(-1, NullBuf, sourceSampleRate, rootNote))]
    /\ lastOp' = [Op("startNote", NoButton, midiNoteNumber, sourceSampleRate > 0)
                    EXCEPT !.arg = <<v, rootNote>>]
    /\ UNCHANGED <<sessionVars, pluginVars, oneShotEnabled, audioVars, learnVars, editorVars>>

ApiClearSample(p) ==
    /\ audioPc = "idle" /\ loadPc = <<>>
    /\ SetPlugin(ClearSample(Plugin, p))
    /\ lastOp' = Op("clearSample", p, -1, FALSE)
    /\ UNCHANGED <<sessionVars, synthVars, audioVars, learnVars, editorVars>>

ApiSetNoteMapping(p, n) ==
    /\ audioPc = "idle" /\ loadPc = <<>>
    /\ SetPlugin(SetNoteMapping(Plugin, p, n))
    /\ lastOp' = Op("setNoteMapping", p, n, FALSE)
    /\ UNCHANGED <<sessionVars, synthVars, audioVars, learnVars, editorVars>>

LoadPads == {0}

XmlInputs ==
    {<<[index |-> p, filePath |-> f, noteMapping |-> n]>> :
        p \in LoadPads, f \in {GoodFile, NoPath}, n \in InNotes}

\* the host asks for the plugin's state and keeps it
ApiGetStateInformation ==
    /\ audioPc = "idle" /\ loadPc = <<>>
    /\ destData' = GetStateInformation(Plugin)
    /\ lastOp' = Op("getStateInformation", NoButton, -1, FALSE)
    /\ UNCHANGED <<clickPc, loadPc, jsonFile, heardNote, pluginVars, synthVars, audioVars,
                   learnVars, editorVars>>

ApiSetStateInformation(xml) ==
    /\ audioPc = "idle" /\ loadPc = <<>>
    /\ SetPlugin(SetStateInformation(Plugin, xml))
    /\ lastOp' = Op("setStateInformation", xml[1].index, xml[1].noteMapping, FALSE)
    /\ UNCHANGED <<sessionVars, synthVars, audioVars, learnVars, editorVars>>

\* the host hands the state it kept back to the plugin
RestoreSavedState ==
    /\ destData # <<>>
    /\ ApiSetStateInformation(destData)

NoteOns == {NoteOnMsg(n, ClickVelocity) : n \in InNotes}
MidiInputs == NoteOns \cup {NoteOffMsg(n) : n \in InNotes}
LoadNotes == {FirstNote}
\* the key the learn protocol is driven with: the note the start-up document
\* loads a sample for, pressed and released
LearnInputs == {NoteOnMsg(FirstNote, ClickVelocity), NoteOffMsg(FirstNote)}

\* processBlock on buffers of numSamples frames
AudioBlocks(numSamples) ==
    \/ BeginBlock(numSamples)
    \/ \E steal \in Voices : HandleEvent(steal)
    \/ \E k \in 1..numSamples, ub \in UBLens, trap \in BOOLEAN :
          RenderVoices(numSamples, k, ub, trap)

Audio == AudioBlocks(BlockSize)

\* ---- the learn protocol: the editor's learn controls, MIDI input, audio ----
NextLearn ==
    \/ Audio
    \/ \E m \in LearnInputs : MidiInput(m)
    \/ ClickMidiLearn
    \/ ClickSampleLearn
    \/ \E p \in Pads : PadSelectForLearn(p)
    \/ \E p \in Pads : PadSampleLearnClick(p)
    \/ \E f \in {BadFile, NoPath} : FileChooserCallback(f)

SpecLearn == Init /\ [][NextLearn]_vars

\* ---- documents: export, import, and the operations that change what is
\* exported ----
\* hand-written documents: one without oneShotMode whose midiNotes name a
\* missing file and then a valid one, one without buttons, one without
\* midiNotes
DocMissingThenValid ==
    Document(FALSE, FALSE,
             TRUE, <<[index |-> 0, midiNote |-> FirstNote + 1, filePath |-> NoPath]>>,
             TRUE, <<[midiNote |-> FirstNote, filePath |-> MissingFile],
                     [midiNote |-> FirstNote + 1, filePath |-> GoodFile]>>)
DocNoButtons ==
    Document(TRUE, FALSE, FALSE, <<>>,
             TRUE, <<[midiNote |-> FirstNote + 1, filePath |-> GoodFile]>>)
DocNoMidiNotes ==
    Document(TRUE, TRUE,
             TRUE, <<[index |-> 1, midiNote |-> FirstNote, filePath |-> NoPath]>>,
             FALSE, <<>>)
ImportDocuments == {DocMissingThenValid, DocNoButtons, DocNoMidiNotes}

NextDocuments ==
    \/ \E fresh \in BOOLEAN : ExportCallback(fresh)
    \/ ImportSettingsFile
    \/ \E doc \in ImportDocuments : ImportCallback(doc)
    \/ \E p \in LoadPads, n \in InNotes : ApiSetNoteMapping(p, n)

SpecDocuments == Init /\ [][NextDocuments]_vars

\* ---- a load in progress, MIDI input and the render callback ----
NextLoading ==
    \/ Audio
    \/ \E n \in LoadNotes : MidiInput(NoteOnMsg(n, ClickVelocity))
    \/ \E n \in LoadNotes : BeginLoadSampleForMidiNote(n, GoodFile)
    \/ FinishLoadSampleForMidiNote

SpecLoading == Init /\ [][NextLoading]_vars

\* ---- decoding: what a load, a clear and a state restore leave in a slot ----
\* the files a load is given: one that decodes, one no format reads, one that
\* decodes to no frames
DecodeFiles == {GoodFile, BadFile, EmptyFile}
NextDecode ==
    \/ \E n \in LoadNotes, f \in DecodeFiles : ApiLoadSampleForMidiNote(n, f)
    \/ \E n \in LoadNotes : ApiClearMidiNoteSample(n)
    \/ \E p \in LoadPads, f \in DecodeFiles : ApiLoadSample(p, f)
    \/ \E p \in LoadPads : PadRightClick(p)
    \/ \E xml \in XmlInputs : ApiSetStateInformation(xml)

SpecDecode == Init /\ [][NextDecode]_vars

\* ---- frames: what a voice reads from its buffer and adds to the output ----
NextFrames ==
    \/ Audio
    \/ \E n \in LoadNotes : MidiInput(NoteOnMsg(n, ClickVelocity))
    \/ \E n \in LoadNotes, f \in {GoodFile, EmptyFile} : ApiLoadSampleForMidiNote(n, f)

SpecFrames == Init /\ [][NextFrames]_vars

\* ---- Sample Learn: arming, MIDI input, the pad click, the file chooser ----
\* the pad clicked is one whose note is not the key that is pressed
LearnPads == {1}
NextSampleLearn ==
    \/ Audio
    \/ \E n \in LoadNotes : MidiInput(NoteOnMsg(n, ClickVelocity))
    \/ ClickSampleLearn
    \/ \E p \in LearnPads : PadSampleLearnClick(p)
    \/ \E f \in {GoodFile, BadFile, NoPath} : FileChooserCallback(f)

SpecSampleLearn == Init /\ [][NextSampleLearn]_vars

\* ---- the voices: MIDI input, the one-shot toggle, audio ----
NextVoices ==
    \/ Audio
    \/ \E m \in MidiInputs : MidiInput(m)
    \/ ClickOneShot

SpecVoices == Init /\ [][NextVoices]_vars

\* the same with the render callback called again and again: a block that
\* can begin does begin, and a block that has begun is carried to its end
LiveSpecVoices == Init /\ [][NextVoices]_vars /\ WF_vars(Audio)

\* ---- the note slots: loads and clears against playing voices ----
NextSlots ==
    \/ Audio
    \/ \E m \in NoteOns : MidiInput(m)
    \/ \E n \in LoadNotes, f \in Files : ApiLoadSampleForMidiNote(n, f)
    \/ \E n \in LoadNotes : ApiClearMidiNoteSample(n)

SpecSlots == Init /\ [][NextSlots]_vars

\* ---- the pad slots: pad loads, clears, rebinds, state restore ----
NextPads ==
    \/ Audio
    \/ \E n \in LoadNotes : MidiInput(NoteOnMsg(n, ClickVelocity))
    \/ \E p \in LoadPads : ApiLoadSample(p, GoodFile)
    \/ \E p \in LoadPads : PadRightClick(p)
    \/ \E p \in LoadPads, n \in InNotes : ApiSetNoteMapping(p, n)
    \/ \E xml \in XmlInputs : ApiSetStateInformation(xml)

SpecPads == Init /\ [][NextPads]_vars

\* ---- rebinding: a pad's sample playing while the pad is bound again ----
\* the key of the pad's first binding pressed, and either key released
RebindInputs ==
    {NoteOnMsg(FirstNote, ClickVelocity)} \cup {NoteOffMsg(n) : n \in InNotes}
NextRebind ==
    \/ Audio
    \/ \E m \in RebindInputs : MidiInput(m)
    \/ \E p \in LoadPads : ~buttons[p].isLoaded /\ ApiLoadSample(p, GoodFile)
    \/ \E p \in LoadPads, n \in InNotes : ApiSetNoteMapping(p, n)
    \/ ClickOneShot

SpecRebind == Init /\ [][NextRebind]_vars

\* ---- forwarding: MIDI input in every learn state, several messages
\* waiting in the collector ----
NextForward ==
    \/ Audio
    \/ \E m \in LearnInputs : MidiInputUpTo(m, MaxBurst)
    \/ ClickMidiLearn
    \/ ClickSampleLearn
    \/ \E p \in Pads : PadSelectForLearn(p)

SpecForward == Init /\ [][NextForward]_vars

\* ---- blocks of more than one frame: events at their frames of the block ----
NextBlocks ==
    \/ AudioBlocks(LongBlock)
    \/ \E m \in LearnInputs : MidiInputUpTo(m, MaxBurst)
    \/ ClickOneShot

SpecBlocks == Init /\ [][NextBlocks]_vars

\* ---- indices: the plugin's operations called with indices in and out of
\* range ----
PadIndices == {-1, 0, NumPads}
NoteIndices == {-1, FirstNote, NumMidiNotes}
NextIndices ==
    \/ \E n \in NoteIndices, f \in Files : ApiLoadSampleForMidiNote(n, f)
    \/ \E n \in NoteIndices : ApiClearMidiNoteSample(n)
    \/ \E p \in PadIndices, f \in Files : ApiLoadSample(p, f)
    \/ \E p \in PadIndices : ApiClearSample(p)
    \/ \E p \in PadIndices, n \in InNotes : ApiSetNoteMapping(p, n)

SpecIndices == Init /\ [][NextIndices]_vars

\* ---- pitch: startNote on sounds of several root notes and source rates ----
RootNotes == {FirstNote, FirstNote + 12}
PlayedNotes == {FirstNote, FirstNote + 5, FirstNote + 12, FirstNote + 24}
SourceRates == {0, 44100}
NextPitch ==
    \E v \in Voices, n \in PlayedNotes, root \in RootNotes, rate \in SourceRates :
        ApiStartNote(v, n, root, rate)

SpecPitch == Init /\ [][NextPitch]_vars

\* ---- pad clicks and the note-off timer ----
NextClicks ==
    \/ Audio
    \/ \E p \in Pads : PadClick(p)
    \/ TimerNoteOff

SpecClicks == Init /\ [][NextClicks]_vars

\* the render callback and the editor's timer keep running: a pending
\* note-off whose delay has passed is sent
LiveSpecClicks ==
    Init /\ [][NextClicks]_vars /\ WF_vars(Audio) /\ SF_vars(TimerNoteOff)

\* ---- pad clicks in every learn state ----
NextArmedClicks ==
    \/ Audio
    \/ ClickMidiLearn
    \/ ClickSampleLearn
    \/ \E p \in Pads : PadSelectForLearn(p)
    \/ \E p \in Pads : PadSampleLearnClick(p)
    \/ \E p \in Pads : PadClick(p)
    \/ \E p \in Pads : PadRightClick(p)
    \/ FileChooserCallback(NoPath)
    \/ TimerNoteOff

SpecArmedClicks == Init /\ [][NextArmedClicks]_vars

\* ---- binding pads while notes and pads hold samples; the bindings are made
\* between render callbacks, the keys pressed wait in the collector ----
\* the key of the loaded note slot, pressed
BindInputs == {NoteOnMsg(n, ClickVelocity) : n \in LoadNotes}

NextBind ==
    \/ \E m \in BindInputs : MidiInputUpTo(m, MaxBurst)
    \/ ClickMidiLearn
    \/ \E p \in Pads : PadSelectForLearn(p)
    \/ \E p \in Pads, n \in InNotes : ApiSetNoteMapping(p, n)
    \/ \E n \in LoadNotes : ~midiNoteSamples[n].isLoaded /\ ApiLoadSampleForMidiNote(n, GoodFile)
    \/ \E p \in LoadPads : ~buttons[p].isLoaded /\ ApiLoadSample(p, GoodFile)

SpecBind == Init /\ [][NextBind]_vars

\* ---- the registered sounds: note slots and pad slots loaded, cleared,
\* rebound and imported ----
NextSounds ==
    \/ \E n \in InNotes, f \in Files : ApiLoadSampleForMidiNote(n, f)
    \/ \E n \in InNotes : ApiClearMidiNoteSample(n)
    \/ \E p \in LoadPads : ApiLoadSample(p, GoodFile)
    \/ \E p \in LoadPads : ApiClearSample(p)
    \/ \E p \in LoadPads, n \in InNotes : ApiSetNoteMapping(p, n)
    \/ \E doc \in ImportDocuments : ImportCallback(doc)

SpecSounds == Init /\ [][NextSounds]_vars

\* ---- pad-indexed and note-indexed samples side by side, a key pressed ----
NextLayers ==
    \/ Audio
    \/ \E n \in LoadNotes : MidiInput(NoteOnMsg(n, ClickVelocity))
    \/ \E n \in LoadNotes : ~midiNoteSamples[n].isLoaded /\ ApiLoadSampleForMidiNote(n, GoodFile)
    \/ \E p \in Pads : ~buttons[p].isLoaded /\ ApiLoadSample(p, GoodFile)
    \/ \E p \in Pads, n \in LoadNotes : noteMapping[p] # n /\ ApiSetNoteMapping(p, n)

SpecLayers == Init /\ [][NextLayers]_vars

\* ---- the plugin's state saved by the host and handed back ----
NextState ==
    \/ ApiGetStateInformation
    \/ RestoreSavedState
    \/ \E p \in Pads, n \in InNotes : ApiSetNoteMapping(p, n)
    \/ \E p \in Pads : ~buttons[p].isLoaded /\ ApiLoadSample(p, GoodFile)
    \/ \E p \in Pads : ApiClearSample(p)

SpecState == Init /\ [][NextState]_vars

\* ---- the pad map under binds and imports of any note number ----
\* a document whose buttons section names a note past the MIDI range for
\* the first pad and a negative one for the second
DocNotesOutOfRange ==
    Document(FALSE, FALSE,
             TRUE, <<[index |-> 0, midiNote |-> NumMidiNotes, filePath |-> NoPath],
                     [index |-> 1, midiNote |-> -1, filePath |-> NoPath]>>,
             FALSE, <<>>)

NextRange ==
    \/ \E n \in InNotes : MidiInputUpTo(NoteOnMsg(n, ClickVelocity), MaxBurst)
    \/ ClickMidiLearn
    \/ \E p \in Pads : PadSelectForLearn(p)
    \/ \E p \in Pads, n \in NoteIndices : ApiSetNoteMapping(p, n)
    \/ \E doc \in {DocNotesOutOfRange, DocNoMidiNotes} : ImportCallback(doc)

SpecRange == Init /\ [][NextRange]_vars

\* ---- the one-shot toggle, exports and imports ----
NextOneShot ==
    \/ ClickOneShot
    \/ \E fresh \in BOOLEAN : ExportCallback(fresh)
    \/ ImportSettingsFile
    \/ \E doc \in ImportDocuments : ImportCallback(doc)

SpecOneShot == Init /\ [][NextOneShot]_vars

\* ---- selecting a pad for MIDI Learn while MIDI arrives: the editor's
\* handlers run one at a time on the message thread, handleMidiMessage on
\* the MIDI input thread ----
NextSelect ==
    \/ \E m \in LearnInputs : MidiInputUpTo(m, MaxBurst)
    \/ clickPc = NoButton /\ ClickMidiLearn
    \/ clickPc = NoButton /\ ClickSampleLearn
    \/ \E p \in Pads : BeginPadSelectForLearn(p)
    \/ FinishPadSelectForLearn

SpecSelect == Init /\ [][NextSelect]_vars

\* ---- sounds of two root notes, keys of both notes pressed ----
NextRoots ==
    \/ Audio
    \/ \E m \in NoteOns : MidiInput(m)
    \/ \E n \in InNotes : ~midiNoteSamples[n].isLoaded /\ ApiLoadSampleForMidiNote(n, GoodFile)

SpecRoots == Init /\ [][NextRoots]_vars

\* ---- everything together ----
Next ==
    \/ Audio
    \/ \E m \in MidiInputs : MidiInput(m)
    \/ ClickMidiLearn
    \/ ClickSampleLearn
    \/ ClickOneShot
    \/ \E p \in Pads : PadSelectForLearn(p)
    \/ \E p \in Pads : PadSampleLearnClick(p)
    \/ \E p \in Pads : PadDoubleClick(p)
    \/ \E p \in Pads : PadClick(p)
    \/ \E f \in Files \cup {NoPath} : FileChooserCallback(f)
    \/ TimerNoteOff
    \/ \E n \in InNotes, f \in Files : ApiLoadSampleForMidiNote(n, f)
    \/ \E n \in InNotes : ApiClearMidiNoteSample(n)
    \/ \E p \in Pads, f \in Files : ApiLoadSample(p, f)
    \/ \E p \in Pads : PadRightClick(p)
    \/ \E p \in Pads, n \in InNotes : ApiSetNoteMapping(p, n)
    \/ \E xml \in XmlInputs : ApiSetStateInformation(xml)

Spec == Init /\ [][Next]_vars

\* ---------------------------------------------------------------------
\* Vocabulary of the properties
\* ---------------------------------------------------------------------

\* the buffer behind a pointer is still allocated
Live(b) == b # NullBuf /\ heap[b] # NoPath

SoundsFor(note) == {i \in 1..Len(sounds) : AppliesToNote(sounds[i], note)}

PlayingOn(vs, note) == {v \in Voices : vs[v].isPlaying /\ vs[v].midiNoteNumber = note}

\* the step is the synth handling the block's next event
EventStep == audioPc = "block" /\ allMidi # <<>> /\ allMidi' = Tail(allMidi)
NoteOnStep == EventStep /\ Head(allMidi).isNoteOn
NoteOffStep == EventStep /\ ~Head(allMidi).isNoteOn

\* the step renders frames
RenderStep == audioPc = "block" /\ framesLeft' < framesLeft

\* the voice's playhead reaches the end of its buffer within the frames the
\* step renders
ReachesEnd(v) ==
    /\ Live(voices[v].sampleBuffer)
    /\ voices[v].position + (framesLeft - framesLeft') * voices[v].pitchRatio
          >= CreateReaderFor(heap[voices[v].sampleBuffer]).lengthInSamples * PitchUnit

\* the voice as a note-on leaves it when it starts on the note
StartedOn(v, note) ==
    /\ voices'[v].isPlaying
    /\ voices'[v].currentlyPlayingNote = note
    /\ voices'[v].midiNoteNumber = note
    /\ voices'[v].position = 0

\* ---------------------------------------------------------------------
\* C1..C10
\* ---------------------------------------------------------------------

\* C1 (as stated): clearing or reloading a note never frees a buffer a
\* Playing voice reads: every Playing voice's buffer is still allocated.
C1_PlayingVoiceReadsLiveBuffer ==
    \A v \in Voices : voices[v].isPlaying => Live(voices[v].sampleBuffer)

\* C1: a state the statement excludes: a clear or (re)load has just run and a
\* Playing voice points at the buffer it deleted.
C1_VoiceReadsFreedBuffer ==
    /\ lastOp.op \in {"clearMidiNoteSample", "loadOk", "loadFailed"}
    /\ \E v \in Voices : voices[v].isPlaying /\ ~Live(voices[v].sampleBuffer)

\* C2 (as stated): a load that fails to decode leaves the slot as it was: a
\* note that had a sample still has it, and its sound is still registered.
C2_FailedLoadKeepsSample ==
    (lastOp.op = "loadFailed" /\ lastOp.flag)
        => /\ midiNoteSamples[lastOp.note].isLoaded
           /\ SoundsFor(lastOp.note) # {}

\* C2: a state the statement excludes: the load failed, the note had a
\* sample before it, and the slot is empty now.
C2_FailedLoadClearedSlot ==
    /\ lastOp.op = "loadFailed" /\ lastOp.flag
    /\ midiNoteSamples[lastOp.note] = EmptySample
    /\ SoundsFor(lastOp.note) = {}

C4_LearnBindsAndDisarms ==
    [][/\ lastOp'.op = "selectPad"
          => isMidiLearning' /\ learningButtonIndex' = lastOp'.pad
       /\ \A p \in Pads :
            (/\ isMidiLearning /\ learningButtonIndex = p
             /\ lastOp'.op = "midiIn"
             /\ midiCollector' # midiCollector
             /\ midiCollector'[Len(midiCollector')].isNoteOn)
            => /\ noteMapping'[p] = midiCollector'[Len(midiCollector')].note
               /\ ~isMidiLearning'
               /\ learningButtonIndex' = NoButton]_vars

\* C4: a capture has just bound a pad to a note other than its default.
C4_PadRebound ==
    /\ lastOp.op = "midiIn" /\ lastOp.flag
    /\ lastOp.pad \in Pads
    /\ noteMapping[lastOp.pad] = lastOp.note
    /\ lastOp.note # FirstNote + lastOp.pad
    /\ ~isMidiLearning /\ learningButtonIndex = NoButton

\* C5: MIDI Learn and Sample Learn are never armed together; a click that
\* arms one leaves the other disarmed.
C5_OneLearnSession ==
    /\ ~(isMidiLearning /\ isSampleLearning)
    /\ (lastOp.op = "clickMidiLearn" /\ isMidiLearning) => ~isSampleLearning
    /\ (lastOp.op = "clickSampleLearn" /\ isSampleLearning) => ~isMidiLearning

\* C5: MIDI Learn has just been armed by a click made while Sample Learn was
\* armed.
C5_ArmedOverOther ==
    /\ lastOp.op = "clickMidiLearn" /\ lastOp.flag
    /\ isMidiLearning /\ ~isSampleLearning

C7_OneShotPlaysToEnd ==
    [][oneShotEnabled
          => /\ NoteOffStep => voices' = voices
             /\ \A v \in Voices :
                  (voices[v].isPlaying /\ ~voices'[v].isPlaying)
                     => RenderStep /\ ReachesEnd(v)]_vars

\* C7: one-shot is enabled, the synth has just handled a note-off for a note,
\* and a voice is still playing that note.
C7_NoteOffIgnored ==
    /\ oneShotEnabled
    /\ lastOp.op = "noteOff"
    /\ PlayingOn(voices, lastOp.note) # {}

\* C8 (as stated): with one-shot disabled, a note-off for a note a voice is
\* Playing leaves the first such voice Idle: silent and free for the next
\* note-on.
C8_NoteOffFreesVoice ==
    [][(~oneShotEnabled /\ NoteOffStep /\ PlayingOn(voices, Head(allMidi).note) # {})
          => LET first == CHOOSE v \in PlayingOn(voices, Head(allMidi).note) :
                             \A w \in PlayingOn(voices, Head(allMidi).note) : v <= w
             IN /\ ~voices'[first].isPlaying
                /\ first \in FreeVoices(voices')]_vars

\* C8: a state the statement excludes: one-shot is disabled, a note-off has
\* just been handled, and a voice is silent yet still holds the note, so it
\* is not free.
C8_SilentVoiceNotFree ==
    /\ ~oneShotEnabled
    /\ lastOp.op = "noteOff"
    /\ \E v \in Voices : /\ ~voices[v].isPlaying
                         /\ voices[v].currentlyPlayingNote = lastOp.note

C10_EachTriggerAddsVoice ==
    [][(/\ NoteOnStep
        /\ midiNoteSamples[Head(allMidi).note].isLoaded
        /\ FreeVoices(voices) # {})
          => /\ Cardinality(PlayingOn(voices', Head(allMidi).note))
                   = Cardinality(PlayingOn(voices, Head(allMidi).note)) + 1
             /\ Cardinality(FreeVoices(voices'))
                   = Cardinality(FreeVoices(voices)) - 1]_vars

\* C10 (amended): a note-on for a note with one registered sound that finds a
\* free voice takes one free voice.  With one-shot enabled it leaves one more
\* voice Playing that note (k note-ons in succession leave k Playing and k
\* fewer free); with one-shot disabled it silences the voices already on that
\* note, so the new voice is the only one Playing it.
C10_TriggerPerOneShot ==
    [][(/\ NoteOnStep
        /\ Cardinality(SoundsFor(Head(allMidi).note)) = 1
        /\ FreeVoices(voices) # {})
          => /\ Cardinality(FreeVoices(voices'))
                   = Cardinality(FreeVoices(voices)) - 1
             /\ oneShotEnabled
                   => Cardinality(PlayingOn(voices', Head(allMidi).note))
                         = Cardinality(PlayingOn(voices, Head(allMidi).note)) + 1
             /\ ~oneShotEnabled
                   => Cardinality(PlayingOn(voices', Head(allMidi).note)) = 1]_vars

\* C10: one-shot is enabled, the synth has just handled a note-on that found
\* a free voice, and two voices are Playing that note.
C10_TwoVoicesOnNote ==
    /\ oneShotEnabled
    /\ lastOp.op = "noteOn"
    /\ lastOp.free >= 1
    /\ Cardinality(PlayingOn(voices, lastOp.note)) >= 2

\* C11 (as stated): when a Sample Learn session in which a note-on was
\* received ends with a successful load, the sample is in the slot of the
\* first note-on received since Sample Learn was armed.
C11_LoadTargetsHeardNote ==
    [][(lastOp'.op = "loadOk" /\ lastOp'.pad \in Pads
           /\ isSampleLearning /\ heardNote # -1)
          => /\ lastOp'.note = heardNote
             /\ midiNoteSamples'[heardNote].isLoaded]_vars

\* C11: a Sample Learn session heard a note-on and then loaded the chosen
\* file into the slot of another note, the one the clicked pad maps to; the
\* slot of the note that was heard holds no sample.
C11_LoadedOtherNote ==
    /\ lastOp.op = "loadOk" /\ lastOp.pad \in Pads
    /\ heardNote # -1 /\ lastOp.note # heardNote
    /\ lastOp.note = noteMapping[lastOp.pad]
    /\ midiNoteSamples[lastOp.note].isLoaded
    /\ ~midiNoteSamples[heardNote].isLoaded

\* C12: when the file chooser opened from Sample Learn finishes, whatever
\* the outcome, Sample Learn is no longer armed (and, the callback having
\* found it armed, neither is MIDI Learn); a file that was chosen is reported
\* on the label as assigned exactly when the note's slot now holds a sample
\* and as failed exactly when it does not; with no file chosen nothing is
\* loaded and nothing is reported.
C12_ChooserEndsSampleLearn ==
    [][(lastOp'.op \in {"loadOk", "loadFailed", "chooserCancelled"} /\ lastOp'.pad \in Pads)
          => /\ ~isSampleLearning' /\ sampleLearnButtonIndex' = NoButton
             /\ isSampleLearning => ~isMidiLearning'
             /\ lastOp'.op = "chooserCancelled"
                   => /\ lastOp'.label = NoPath
                      /\ midiNoteSamples' = midiNoteSamples
             /\ lastOp'.op # "chooserCancelled"
                   => /\ lastOp'.label \in {"Sample assigned to pad", "Failed to load sample"}
                      /\ lastOp'.label = "Sample assigned to pad"
                            <=> midiNoteSamples'[lastOp'.note].isLoaded]_vars

\* C12: a file chooser opened from Sample Learn has just ended in a decode
\* failure: the failure is on the label and no learn mode is armed.
C12_FailureReported ==
    /\ lastOp.op = "loadFailed" /\ lastOp.pad \in Pads
    /\ lastOp.label = "Failed to load sample"
    /\ ~midiNoteSamples[lastOp.note].isLoaded
    /\ ~isSampleLearning /\ ~isMidiLearning

\* C13: arming MIDI Learn, selecting a pad and cancelling (a second click on
\* MIDI Learn, or a click on Sample Learn, with or without a pad selected)
\* change no pad mapping; the cancelling click leaves MIDI Learn not armed and
\* no pad selected; and a MIDI message received while MIDI Learn is not armed
\* changes no pad mapping and no registered sound.
C13_CancelledLearnBindsNothing ==
    [][/\ lastOp'.op \in {"clickMidiLearn", "clickSampleLearn", "selectPad"}
             => noteMapping' = noteMapping
       /\ (lastOp'.op \in {"clickMidiLearn", "clickSampleLearn"} /\ isMidiLearning)
             => ~isMidiLearning' /\ learningButtonIndex' = NoButton
       /\ (lastOp'.op = "midiIn" /\ ~isMidiLearning)
             => noteMapping' = noteMapping /\ sounds' = sounds]_vars

\* C13: a note-on has just been received right after a click that cancelled
\* MIDI Learn while a pad was selected; the pad still maps to its default note,
\* which is not the note received.
C13_NoteOnAfterCancel ==
    /\ lastOp.op = "midiIn" /\ ~lastOp.flag
    /\ lastOp.pad \in Pads
    /\ ~isMidiLearning /\ learningButtonIndex = NoButton
    /\ midiCollector # <<>> /\ midiCollector[Len(midiCollector)].isNoteOn
    /\ noteMapping[lastOp.pad] = FirstNote + lastOp.pad
    /\ noteMapping[lastOp.pad] # lastOp.note

\* C14 (as stated): an export followed at once by an import of the file
\* written leaves the pad mappings and the set of loaded notes as they were
\* at export time; and right after an export, importing the file into a
\* freshly constructed plugin gives the mappings and the loaded notes of the
\* exporting one.
C14_RoundTrip ==
    [][/\ (lastOp.op = "export" /\ lastOp'.op = "import" /\ lastOp'.arg = ParseJson(jsonFile))
             => /\ noteMapping' = noteMapping
                /\ \A n \in MidiNotes :
                      midiNoteSamples'[n].isLoaded = midiNoteSamples[n].isLoaded
       /\ lastOp'.op = "export"
             => LET fresh == LoadAllSamplesFromJson(Constructed, FALSE,
                                                    ParseJson(jsonFile')).plugin
                IN /\ fresh.noteMapping = noteMapping'
                   /\ \A n \in MidiNotes :
                         fresh.midiNoteSamples[n].isLoaded = midiNoteSamples'[n].isLoaded]_vars

\* C14: the settings file was exported over an earlier export, then
\* imported, and the mappings are not those that were just exported.
C14_ImportedStaleDocument ==
    /\ lastOp.op = "import" /\ lastOp.flag
    /\ Len(jsonFile) > 1
    /\ lastOp.arg = jsonFile[1]
    /\ \E p \in Pads : noteMapping[p] # jsonFile[Len(jsonFile)].buttons[p + 1].midiNote

\* an entry of a midiNotes section that names a file that is there and
\* decodes, and one that names a file that is not there
ValidEntry(e) ==
    /\ e.midiNote \in MidiNotes /\ e.filePath # NoPath
    /\ Exists(e.filePath) /\ CreateReaderFor(e.filePath).ok
MissingEntry(e) == e.midiNote \in MidiNotes /\ e.filePath # NoPath /\ ~Exists(e.filePath)
Entries(doc) == {doc.midiNotes[i] : i \in 1..Len(doc.midiNotes)}

\* C15: an import of a document whose midiNotes entries name valid files and
\* missing files succeeds; the note of every valid entry ends loaded with
\* that entry's file (entries after a failing one included); a note named
\* only by missing-file entries that had no sample has none; the counts
\* reported are the number of valid and of missing entries.
C15_ImportSkipsMissingFiles ==
    [][(/\ lastOp'.op = "import" /\ lastOp'.arg.isObject /\ lastOp'.arg.hasMidiNotes
        /\ \A e \in Entries(lastOp'.arg) :
              e.filePath # NoPath => ValidEntry(e) \/ MissingEntry(e))
          => LET doc == lastOp'.arg
                 valid == {i \in 1..Len(doc.midiNotes) : ValidEntry(doc.midiNotes[i])}
                 missing == {i \in 1..Len(doc.midiNotes) : MissingEntry(doc.midiNotes[i])}
             IN /\ lastOp'.flag
                /\ \A i \in valid : midiNoteSamples'[doc.midiNotes[i].midiNote].isLoaded
                /\ \A i \in missing :
                      (/\ ~midiNoteSamples[doc.midiNotes[i].midiNote].isLoaded
                       /\ \A j \in valid : doc.midiNotes[j].midiNote # doc.midiNotes[i].midiNote)
                         => ~midiNoteSamples'[doc.midiNotes[i].midiNote].isLoaded
                /\ lastOp'.failed = Cardinality(missing)
                /\ lastOp'.loaded = Cardinality(valid)]_vars

\* C15: an import has just reported one loaded and one failed entry: the
\* missing file's note has no sample and the valid entry after it is loaded.
C15_OneLoadedOneFailed ==
    /\ lastOp.op = "import" /\ lastOp.flag
    /\ lastOp.arg = DocMissingThenValid
    /\ lastOp.failed = 1 /\ lastOp.loaded = 1
    /\ ~midiNoteSamples[FirstNote].isLoaded
    /\ midiNoteSamples[FirstNote + 1].isLoaded
    /\ midiNoteSamples[FirstNote + 1].filePath = GoodFile

\* C16: an import of a document without oneShotMode leaves the one-shot
\* flag (the editor's, the toggle's and the voices') as it was; one without
\* buttons leaves every pad mapping as it was; one without midiNotes leaves
\* every note slot as it was.
C16_AbsentSectionsChangeNothing ==
    [][(lastOp'.op = "import" /\ lastOp'.arg.isObject)
          => /\ ~lastOp'.arg.hasOneShotMode
                   => /\ isOneShotMode' = isOneShotMode
                      /\ oneShotButton' = oneShotButton
                      /\ oneShotEnabled' = oneShotEnabled
             /\ ~lastOp'.arg.hasButtons => noteMapping' = noteMapping
             /\ ~lastOp'.arg.hasMidiNotes => midiNoteSamples' = midiNoteSamples]_vars

\* C16: a document without oneShotMode has just been imported with one-shot
\* switched off before it, and one-shot is still off while the document's
\* sections were applied.
C16_OneShotRetained ==
    /\ lastOp.op = "import" /\ lastOp.flag
    /\ ~lastOp.arg.hasOneShotMode
    /\ ~isOneShotMode /\ ~oneShotEnabled
    /\ lastOp.loaded = 1
    /\ noteMapping[0] = FirstNote + 1

\* C17 (as stated): a note-on handled by the synth while a load that will
\* succeed is in progress onto its note, a note that held a sample when the
\* load began, starts a voice on the note (with the old sample or the new).
C17_LoadIsAtomicForRender ==
    [][(/\ NoteOnStep
        /\ loadPc # <<>> /\ loadPc[3] /\ CreateReaderFor(loadPc[2]).ok
        /\ Head(allMidi).note = loadPc[1])
          => \E v \in Voices : StartedOn(v, Head(allMidi).note)]_vars

\* C17: the synth has just handled a note-on for a note whose sample is
\* being replaced: the old sound is gone, the new one is not there yet, and no
\* voice started.
C17_NoteOnFoundNoSample ==
    /\ lastOp.op = "noteOn"
    /\ loadPc # <<>> /\ loadPc[3] /\ CreateReaderFor(loadPc[2]).ok
    /\ lastOp.note = loadPc[1]
    /\ SoundsFor(lastOp.note) = {}
    /\ ~midiNoteSamples[lastOp.note].isLoaded
    /\ \A v \in Voices : ~(voices[v].isPlaying /\ voices[v].position = 0)

\* ---------------------------------------------------------------------
\* C18: the slots
\* ---------------------------------------------------------------------

\* the frames of the buffer a slot points to
FramesOf(slot) == CreateReaderFor(heap[slot.sampleBuffer]).lengthInSamples

FullyLoaded(slot) ==
    /\ slot.sampleBuffer # NullBuf
    /\ heap[slot.sampleBuffer] # NoPath
    /\ FramesOf(slot) >= 1
    /\ slot.isLoaded
    /\ slot.sourceSampleRate > 0

FullyCleared(slot) == slot.sampleBuffer = NullBuf /\ ~slot.isLoaded

\* C18: in every reachable state each note slot and each pad slot is either
\* fully loaded (a buffer of at least one frame, isLoaded, a source rate
\* above zero) or fully cleared (no buffer, not isLoaded), whatever the
\* operation before it: a failed load, a decode of no frames, a state restore.
C18_SlotsLoadedOrCleared ==
    /\ \A n \in MidiNotes :
          FullyLoaded(midiNoteSamples[n]) \/ FullyCleared(midiNoteSamples[n])
    /\ \A p \in Pads : FullyLoaded(buttons[p]) \/ FullyCleared(buttons[p])

\* a load has just returned true for a file of no frames: the slot is marked
\* loaded and holds a buffer without a frame
C18_LoadedWithoutFrames ==
    /\ lastOp.op = "loadOk"
    /\ midiNoteSamples[lastOp.note].isLoaded
    /\ midiNoteSamples[lastOp.note].sampleBuffer # NullBuf
    /\ heap[midiNoteSamples[lastOp.note].sampleBuffer] = EmptyFile
    /\ FramesOf(midiNoteSamples[lastOp.note]) = 0

\* ---------------------------------------------------------------------
\* C19, C20: the frames a voice reads and the terms it adds to the output
\* ---------------------------------------------------------------------

\* the output frames voice v was added to in the render step just taken
WrittenBy(v) == {o.at.outputIndex : o \in {x \in lastOp'.out : x.voice = v}}

\* C19: a voice never reads a source frame at an index at or beyond its
\* buffer's frame count and never reads a frame other than the one at its
\* playhead (no wrap to frame 0); a voice whose playhead has reached or passed
\* the frame count is not playing when the render call returns, and is added
\* to no output frame from the one it stopped at onwards.
C19_ReadsStayInsideBuffer ==
    [][RenderStep =>
        /\ \A r \in lastOp'.reads :
              /\ r.at.samplePos < r.at.frames
              /\ r.at.samplePos = r.at.playhead
              /\ r.at.outputIndex \notin WrittenBy(r.voice)
                    => /\ ~voices'[r.voice].isPlaying
                       /\ \A i \in WrittenBy(r.voice) : i < r.at.outputIndex
        /\ \A v \in Voices :
              (voices'[v].isPlaying /\ voices'[v].sampleBuffer # NullBuf
                    /\ Live(voices'[v].sampleBuffer))
                 => voices'[v].position
                      < PitchUnit * NumSamplesOf(voices'[v].sampleBuffer, 0)]_vars

\* a render call has read frame 0 of a buffer that has no frames
C19_ReadBeyondEmptyBuffer ==
    /\ lastOp.op = "render"
    /\ \E r \in lastOp.reads : r.at.frames = 0 /\ r.at.samplePos >= r.at.frames

\* C20: every frame a playing voice reads inside its buffer is added, times
\* the voice's velocity, to the output frame it was read for: the frame at
\* the truncated playhead goes to that output frame before the playhead
\* advances, so a sample of N frames at pitch ratio 1 contributes its frames
\* 0..N-1 to N consecutive output frames.
C20_EveryFrameReadIsWritten ==
    [][RenderStep =>
        \A r \in lastOp'.reads :
            r.at.samplePos < r.at.frames
               => \E o \in lastOp'.out :
                     /\ o.voice = r.voice
                     /\ o.at.outputIndex = r.at.outputIndex
                     /\ o.at.samplePos = r.at.playhead
                     /\ o.at.velocity = voices[r.voice].velocity]_vars

\* a voice at pitch ratio 1 has read the last frame of a sample of N >= 2
\* frames and stopped, and the render call added nothing for that frame
C20_LastFrameNotWritten ==
    /\ lastOp.op = "render"
    /\ \E r \in lastOp.reads :
          /\ r.at.frames = CreateReaderFor(GoodFile).lengthInSamples
          /\ r.at.samplePos = r.at.frames - 1
          /\ r.at.playhead = r.at.samplePos
          /\ ~voices[r.voice].isPlaying
          /\ \A o \in lastOp.out : o.voice # r.voice

\* ---------------------------------------------------------------------
\* C21: rebinding a pad whose sample is playing
\* ---------------------------------------------------------------------

\* voice v is playing pad p's sample and was started before p was bound to
\* the note it has now
StartedUnderOldBinding(v, p) ==
    /\ voices[v].isPlaying
    /\ voices[v].sampleBuffer # NullBuf
    /\ voices[v].sampleBuffer = buttons[p].sampleBuffer
    /\ voices[v].currentlyPlayingNote # noteMapping[p]

\* C21: binding pad p to a new note changes no voice; a voice started under
\* p's old note keeps that note: a note-off for the old note is applied to it
\* (it stops unless one-shot is enabled) and a note-off for p's new note
\* leaves it as it is.
C21_RebindKeepsVoiceNote ==
    [][/\ noteMapping' # noteMapping => voices' = voices
       /\ NoteOffStep =>
             \A v \in Voices, p \in Pads :
                StartedUnderOldBinding(v, p) =>
                   /\ (Head(allMidi).note = voices[v].currentlyPlayingNote
                          /\ ~oneShotEnabled) => ~voices'[v].isPlaying
                   /\ Head(allMidi).note = noteMapping[p] => voices'[v] = voices[v]]_vars

\* pad 0, loaded and first bound to FirstNote, is now bound to another note;
\* the note-off for FirstNote has just stopped the voice playing its sample
C21_OldNoteOffStoppedVoice ==
    /\ lastOp.op = "noteOff"
    /\ lastOp.note = FirstNote
    /\ ~oneShotEnabled
    /\ buttons[0].isLoaded
    /\ noteMapping[0] # FirstNote
    /\ ~midiNoteSamples[FirstNote].isLoaded
    /\ lastOp.playing > Cardinality({v \in Voices : voices[v].isPlaying})

\* ---------------------------------------------------------------------
\* C22: MIDI input reaches the synth
\* ---------------------------------------------------------------------

\* the MIDI message of a queued event
Content(e) == [isNoteOn |-> e.isNoteOn, note |-> e.note, velocity |-> e.velocity]

\* the step is the MIDI input callback receiving a message that completes no
\* learn capture
PlainInputStep == lastOp'.op = "midiIn" /\ ~lastOp'.flag

PadOutOfRange ==
    /\ lastOp'.op \in {"padLoadOk", "padLoadFailed", "clearSample", "setNoteMapping"}
    /\ lastOp'.pad \notin Pads
NoteOutOfRange ==
    /\ lastOp'.op \in {"loadOk", "loadFailed", "clearMidiNoteSample"}
    /\ lastOp'.note \notin MidiNotes

\* C24: load and clear called with a note out of range, and load, clear and
\* bind called with a pad out of range, change no slot, no pad mapping, no
\* registered sound and no buffer, and a load reports failure.
C24_OutOfRangeRejected ==
    [][(PadOutOfRange \/ NoteOutOfRange) =>
          /\ UNCHANGED pluginVars
          /\ lastOp'.op \notin {"loadOk", "padLoadOk"}]_vars

\* a load for a pad index past the last pad has just failed while pad 0 and
\* a note slot hold samples
C24_RejectedPadLoad ==
    /\ lastOp.op = "padLoadFailed"
    /\ lastOp.pad = NumPads
    /\ buttons[0].isLoaded
    /\ midiNoteSamples[FirstNote].isLoaded

\* ---------------------------------------------------------------------
\* C25: the pitch ratio
\* ---------------------------------------------------------------------

\* C25: after startNote the voice's pitch ratio is 1 when the note is the
\* sound's root note, 2 when it is twelve semitones above, 4 when it is
\* twenty-four above, one half when it is twelve below, and strictly between
\* the ratios of the octaves around it otherwise; with a source rate of zero
\* it is 1 whatever the note.
C25_PitchRatio ==
    [][lastOp'.op = "startNote" =>
          LET ratio == voices'[lastOp'.arg[1]].pitchRatio
              d == lastOp'.note - lastOp'.arg[2]
          IN IF ~lastOp'.flag THEN ratio = PitchUnit
             ELSE /\ d = 0 => ratio = PitchUnit
                  /\ d = 12 => ratio = 2 * PitchUnit
                  /\ d = 24 => ratio = 4 * PitchUnit
                  /\ d = -12 => 2 * ratio = PitchUnit
                  /\ (d > 0 /\ d < 12) => (ratio > PitchUnit /\ ratio < 2 * PitchUnit)
                  /\ (d > -12 /\ d < 0) => (2 * ratio > PitchUnit /\ ratio < PitchUnit)]_vars

\* startNote has just run for a note twelve semitones above the root note of
\* a sound whose source rate is zero, and the ratio is 1
C25_ZeroRateForcesOne ==
    /\ lastOp.op = "startNote"
    /\ ~lastOp.flag
    /\ lastOp.note = lastOp.arg[2] + 12
    /\ voices[lastOp.arg[1]].pitchRatio = PitchUnit
    /\ voices[lastOp.arg[1]].isPlaying

\* ---------------------------------------------------------------------
\* C26: voices return to the pool
\* ---------------------------------------------------------------------

\* the voice produces no sound and findFreeVoice does not return it
SilentAndTaken(v) == ~voices[v].isPlaying /\ voices[v].currentlyPlayingNote >= 0

\* C26: under repeated render calls no voice stays for ever unavailable while
\* producing no sound: every voice is again and again either playing or free
\* for allocation, so a voice that played is eventually back in the pool,
\* after its playhead reached the end of the buffer or, with one-shot
\* disabled, after a note-off for its note.
C26_VoicesReturnToPool == \A v \in Voices : []<>(~SilentAndTaken(v))

\* blocks have been rendered with a voice that a note-off silenced: the voice
\* is still not free
C26_SilentVoiceRenderedOver ==
    /\ lastOp.op = "render"
    /\ audioPc = "idle"
    /\ ~oneShotEnabled
    /\ \E v \in Voices : SilentAndTaken(v) /\ midiCollector = <<>>

\* ---------------------------------------------------------------------
\* C27: entries with an empty filePath
\* ---------------------------------------------------------------------

\* the notes a document's midiNotes section lists with an empty filePath
NotesWithoutFile(doc) ==
    IF doc.isObject /\ doc.hasMidiNotes
    THEN {doc.midiNotes[i].midiNote :
             i \in {j \in 1..Len(doc.midiNotes) :
                       /\ doc.midiNotes[j].filePath = NoPath
                       /\ doc.midiNotes[j].midiNote \in MidiNotes}}
    ELSE {}

\* C27: after a document is imported, every note that its midiNotes section
\* lists with an empty filePath has no loaded sample, whether or not the note
\* had one before the import.
C27_EmptyPathUnloadsNote ==
    [][lastOp'.op = "import" =>
          \A n \in NotesWithoutFile(lastOp'.arg) : ~midiNoteSamples'[n].isLoaded]_vars

\* an import has just succeeded whose document lists a note with an empty
\* filePath, and the note still holds the sample it had before
C27_NoteKeptItsSample ==
    /\ lastOp.op = "import"
    /\ lastOp.flag
    /\ \E n \in NotesWithoutFile(lastOp.arg) :
          /\ midiNoteSamples[n].isLoaded
          /\ midiNoteSamples[n].filePath = GoodFile

\* ---------------------------------------------------------------------
\* C28: the note-off of a pad click
\* ---------------------------------------------------------------------

\* C28: every pad click that enqueues a note-on is eventually followed by a
\* note-off for the same note enqueued by the editor's timer, also when a pad
\* is clicked again before the timer has sent the note-off of the click
\* before.
C28_ClickGetsNoteOff ==
    \A n \in InNotes :
        (lastOp.op = "padClick" /\ lastOp.note = n)
            ~> (lastOp.op = "timerNoteOff" /\ lastOp.note = n)

\* a click has just replaced the pending note-off of a click on a pad of
\* another note: the only note-off the timer will send is for the new note
C28_PendingNoteOffReplaced ==
    /\ lastOp.op = "padClick"
    /\ lastOp.flag
    /\ pendingNoteOffNote = lastOp.note
    /\ pendingNoteOffButton = lastOp.pad

\* ---------------------------------------------------------------------
\* C29: pad clicks while a learn mode is armed
\* ---------------------------------------------------------------------

\* the step is a mouse click on a pad
PadClickStep == lastOp'.op \in {"selectPad", "openChooser", "padClick", "clearSample"}

\* C29: while MIDI Learn or Sample Learn is armed a click on a pad enqueues
\* nothing, schedules no note-off and changes no voice; a left click with
\* MIDI Learn armed only selects the pad for learning, and a left click with
\* Sample Learn armed only opens the sample selection for the pad.
C29_ArmedClickPlaysNothing ==
    [][(PadClickStep /\ (isMidiLearning \/ isSampleLearning)) =>
          /\ midiCollector' = midiCollector /\ allMidi' = allMidi
          /\ voices' = voices
          /\ pendingNoteOffNote' = pendingNoteOffNote
          /\ lastOp'.op # "padClick"
          /\ lastOp'.op = "selectPad" =>
                /\ isMidiLearning
                /\ learningButtonIndex' = lastOp'.pad
                /\ fileChooser' = fileChooser /\ UNCHANGED pluginVars
          /\ lastOp'.op = "openChooser" =>
                /\ ~isMidiLearning
                /\ fileChooser' = lastOp'.pad
                /\ UNCHANGED <<learnVars, pluginVars>>]_vars

\* with Sample Learn armed, a click has just opened the sample selection for a
\* pad: nothing is queued for the engine and no note-off is scheduled
C29_ArmedClickOpenedChooser ==
    /\ lastOp.op = "openChooser"
    /\ isSampleLearning
    /\ fileChooser = lastOp.pad
    /\ pendingNoteOffNote = -1
    /\ midiCollector = <<>>

\* ---------------------------------------------------------------------
\* C30: what binding a pad changes
\* ---------------------------------------------------------------------

\* the step binds pad lastOp'.pad to note lastOp'.note: setNoteMapping called
\* directly, or by the note-on that completes MIDI Learn
BindStep ==
    \/ lastOp'.op = "setNoteMapping" /\ lastOp'.pad \in Pads
    \/ lastOp'.op = "midiIn" /\ lastOp'.flag

\* the sounds registered for note slots
NoteSounds(snds) == SelectSeq(snds, LAMBDA s : s.buttonIndex = -1)

\* C30: binding pad p to a note sets pad p's mapping and nothing else: every
\* other pad keeps its mapping, the same notes have loaded samples, and every
\* note slot keeps its buffer, its path and its root note.
C30_BindChangesOnePad ==
    [][BindStep =>
          /\ noteMapping'[lastOp'.pad] = lastOp'.note
          /\ \A q \in Pads \ {lastOp'.pad} : noteMapping'[q] = noteMapping[q]
          /\ {n \in MidiNotes : midiNoteSamples'[n].isLoaded}
                = {n \in MidiNotes : midiNoteSamples[n].isLoaded}
          /\ midiNoteSamples' = midiNoteSamples
          /\ heap' = heap
          /\ buttons' = buttons
          /\ NoteSounds(sounds') = NoteSounds(sounds)]_vars

\* MIDI Learn has just bound a pad to a note that holds a sample and that
\* another pad is bound to as well
C30_LearnedOntoSharedLoadedNote ==
    /\ lastOp.op = "midiIn" /\ lastOp.flag
    /\ noteMapping[lastOp.pad] = lastOp.note
    /\ noteMapping[lastOp.pad] # FirstNote + lastOp.pad
    /\ \E q \in Pads \ {lastOp.pad} : noteMapping[q] = lastOp.note
    /\ midiNoteSamples[lastOp.note].isLoaded

\* ---------------------------------------------------------------------
\* C31: one note-indexed sound per loaded note slot
\* ---------------------------------------------------------------------

\* the registered sounds made for the slot of note n
NoteSoundsOf(n) ==
    {i \in 1..Len(sounds) : sounds[i].buttonIndex = -1 /\ sounds[i].rootNote = n}

\* C31: for every note the sound list holds exactly one note-indexed sound
\* (buttonIndex -1, rootNote the note) when the note's slot is loaded, and
\* none when it is not.
C31_OneSoundPerLoadedNote ==
    \A n \in MidiNotes :
        Cardinality(NoteSoundsOf(n)) = (IF midiNoteSamples[n].isLoaded THEN 1 ELSE 0)

\* a load has just failed on a note that held a sample, while the other note
\* is loaded and a loaded pad is bound to it as well
C31_FailedLoadBesideLoadedNote ==
    /\ lastOp.op = "loadFailed" /\ lastOp.flag
    /\ ~midiNoteSamples[lastOp.note].isLoaded
    /\ \E n \in InNotes \ {lastOp.note} :
          /\ midiNoteSamples[n].isLoaded
          /\ \E p \in Pads : buttons[p].isLoaded /\ noteMapping[p] = n

\* ---------------------------------------------------------------------
\* C32: the sounds that apply to one note
\* ---------------------------------------------------------------------

\* the voices the step starts on the note
VoicesStartedOn(note) == {v \in Voices : StartedOn(v, note) /\ voices'[v] # voices[v]}

\* C32 (as stated): at most one registered sound applies to any MIDI note, and
\* the synth handling a note-on starts at most one voice.
C32_OneSoundOneVoicePerNote ==
    [][/\ \A n \in MidiNotes : Cardinality(SoundsFor(n)) <= 1
       /\ NoteOnStep => Cardinality(VoicesStartedOn(Head(allMidi).note)) <= 1]_vars

\* one note-on, handled while no voice was playing, has left two voices
\* playing the note from the start: the pad's sound and the note slot's sound
\* both apply to it
C32_NoteOnStartedTwoVoices ==
    /\ lastOp.op = "noteOn" /\ lastOp.playing = 0
    /\ Cardinality({v \in Voices : /\ voices[v].isPlaying
                                   /\ voices[v].currentlyPlayingNote = lastOp.note
                                   /\ voices[v].position = 0}) = 2
    /\ \E i, j \in SoundsFor(lastOp.note) :
          sounds[i].buttonIndex = -1 /\ sounds[j].buttonIndex \in Pads

\* ---------------------------------------------------------------------
\* C33: the buffers the registered sounds point at
\* ---------------------------------------------------------------------

\* the buffer is the one a loaded pad slot or a loaded note slot holds
OwnedByLoadedSlot(b) ==
    \/ \E p \in Pads : buttons[p].isLoaded /\ buttons[p].sampleBuffer = b
    \/ \E n \in MidiNotes : midiNoteSamples[n].isLoaded /\ midiNoteSamples[n].sampleBuffer = b

\* C33 (as stated): every registered sound points at a buffer that is still
\* allocated and that a loaded slot owns.
C33_SoundsPointAtOwnedBuffers ==
    \A i \in 1..Len(sounds) :
        Live(sounds[i].sampleBuffer) /\ OwnedByLoadedSlot(sounds[i].sampleBuffer)

\* a state restore naming no file for a pad has just left the pad's slot
\* cleared while the pad's sound is still registered and points at the buffer
\* the restore deleted
C33_SoundOfDeletedBuffer ==
    /\ lastOp.op = "setStateInformation"
    /\ ~buttons[lastOp.pad].isLoaded
    /\ \E i \in 1..Len(sounds) :
          /\ sounds[i].buttonIndex = lastOp.pad
          /\ sounds[i].sampleBuffer # NullBuf
          /\ ~Live(sounds[i].sampleBuffer)

\* ---------------------------------------------------------------------
\* C34: getStateInformation followed by setStateInformation
\* ---------------------------------------------------------------------

\* the step hands the state the host kept back to the plugin
RestoreStep == lastOp'.op = "setStateInformation" /\ destData # <<>>

\* C34 (as stated): setStateInformation applied to what getStateInformation
\* produced gives every pad the note and the sample path it had when the
\* state was saved, whatever was changed in between.
C34_StateRoundTrip ==
    [][RestoreStep =>
          \A p \in Pads : /\ noteMapping'[p] = destData[p + 1].noteMapping
                          /\ buttons'[p].filePath = destData[p + 1].filePath]_vars

\* the saved state has just been handed back, and a pad other than the first
\* still has the note it was bound to after the state was saved
C34_LaterPadNotRestored ==
    /\ lastOp.op = "setStateInformation" /\ destData # <<>>
    /\ noteMapping[0] = destData[1].noteMapping
    /\ buttons[0].filePath = destData[1].filePath
    /\ \E p \in Pads \ {0} : noteMapping[p] # destData[p + 1].noteMapping

\* ---------------------------------------------------------------------
\* C35: the pad map's size and range
\* ---------------------------------------------------------------------

\* C35 (as stated): the pad map has one entry per pad and every pad's note is
\* a MIDI note number.
C35_PadMapInRange ==
    /\ DOMAIN noteMapping = Pads
    /\ \A p \in Pads : noteMapping[p] \in MidiNotes

\* an import has just bound a pad to the note number its buttons section
\* names, which is no MIDI note; the map still has one entry per pad
C35_ImportedNoteOutOfRange ==
    /\ lastOp.op = "import"
    /\ DOMAIN noteMapping = Pads
    /\ \E i \in 1..Len(lastOp.arg.buttons) :
          /\ lastOp.arg.buttons[i].midiNote \notin MidiNotes
          /\ noteMapping[lastOp.arg.buttons[i].index] = lastOp.arg.buttons[i].midiNote

\* ---------------------------------------------------------------------
\* C36: the editor's one-shot flag and the engine's
\* ---------------------------------------------------------------------

C37_SelectedOnlyWhileArmed == learningButtonIndex >= 0 => isMidiLearning

\* a mouseDown that read MIDI Learn as armed has just selected its pad after
\* a note-on, handled in between, completed the learn for the pad selected
\* before: a pad is selected and MIDI Learn is not armed
C37_SelectedAfterLearnCompleted ==
    /\ lastOp.op = "selectPad" /\ lastOp.flag
    /\ learningButtonIndex = lastOp.pad
    /\ ~isMidiLearning

\* ---------------------------------------------------------------------
\* C38: the note and the root note of a started voice
\* ---------------------------------------------------------------------

\* C38: every voice a note-on starts plays the note-on's note, which is the
\* root note of the sound it was given, at pitch ratio 1; and a note-on whose
\* note is no registered sound's root note starts no voice.
C38_StartedVoiceAtRootPitch ==
    [][NoteOnStep =>
          /\ \A v \in Voices :
                (voices'[v] # voices[v] /\ voices'[v].isPlaying) =>
                    /\ voices'[v].midiNoteNumber = Head(allMidi).note
                    /\ voices'[v].rootNote = voices'[v].midiNoteNumber
                    /\ voices'[v].pitchRatio = PitchUnit
          /\ SoundsFor(Head(allMidi).note) = {} => voices' = voices]_vars

\* a note-on has just started a voice on its note while a sound of another
\* root note is registered as well: the voice has the note as root note and
\* pitch ratio 1
C38_VoiceStartedAtRoot ==
    /\ lastOp.op = "noteOn"
    /\ \E i \in 1..Len(sounds) : sounds[i].rootNote # lastOp.note
    /\ \E v \in Voices : /\ voices[v].isPlaying /\ voices[v].position = 0
                         /\ voices[v].midiNoteNumber = lastOp.note
                         /\ voices[v].rootNote = lastOp.note
                         /\ voices[v].pitchRatio = PitchUnit
====
